---- MODULE Spec2Model ----
(***************************************************************************)
(* Model of the state-aware adaptive signal engine of market-analysis:     *)
(* src/src/market_analysis.py (class MarketAnalyzer) together with the     *)
(* configuration tables of src/src/config/technical_indicators.py.         *)
(*                                                                         *)
(* One analyzer object is the state.  Each public method is one action    *)
(* that runs the whole call, including the calls it makes itself, and      *)
(* records how the call ended (returned / the exception raised) and what   *)
(* it returned.                                                            *)
(*                                                                         *)
(* Numbers.  Python floats are modelled as exact fractions [n, d] with     *)
(* d > 0; d = 0 encodes the IEEE specials the numpy scalars of the code    *)
(* produce instead of raising: [0,0] is NaN, [1,0] is +inf, [-1,0] is      *)
(* -inf.  Rounding error of binary floating point is not modelled.         *)
(***************************************************************************)
EXTENDS Integers, Sequences, FiniteSets, TLC

VARIABLES
    data,                 \* self.data: None or the loaded OHLCV series
    states,               \* self.states: the state assignment, one id per bar
    technical_indicators, \* self.technical_indicators: {} or the indicator series
    indicator_config,     \* self.indicator_config (base_config, min_signal_confidence)
    current_state,        \* self.current_state: None or a state id
    state_characteristics,\* self.state_characteristics: None or state id -> record
    current_characteristics, \* self.current_characteristics (attribute absent until set)
    last_call,            \* the method called last
    args,                 \* the arguments of that call
    outcome,              \* how that call ended: "returned" or the exception raised
    result,               \* what that call returned
    provider_calls,       \* provider.fetch_data invocations made by the last fetch_data
    calls,                \* number of method calls made so far
    requests_per_minute,  \* RateLimiter.requests_per_minute
    test_mode,            \* RateLimiter.test_mode
    request_counts,       \* RateLimiter.request_counts: client -> timestamp -> count
    last_cleanup,         \* RateLimiter.last_cleanup
    clock,                \* time.time(), in whole seconds
    in_flight,            \* dispatch calls waiting in `await call_next(request)`
    responses,            \* request id -> the response dispatch returned for it
    forwarded,            \* client -> the requests handed to call_next, oldest first
    dispatched,           \* number of dispatch calls started so far
    other,                \* a second MarketAnalyzer: its attributes, its last result
                          \* and the identity of its configuration dicts
    market_id,            \* handle_market_subscription: the market_id argument
    queue_manager,        \* handle_market_subscription: the queue_manager argument
    websocket,            \* the WebSocket: its state, the messages sent, the close code
    handler_pc,           \* the await at which handle_market_subscription stands
    queue_calls,          \* the calls made on the queue manager, with their outcomes
    received,             \* number of messages receive_text has returned
    active_connections,   \* ConnectionManager.active_connections: market -> sockets
    client_state,         \* socket -> what it is for broadcast, see SocketStates
    broadcast_pc,         \* where ConnectionManager.broadcast stands
    iterating,            \* the set iterator of the loop of broadcast
    sending,              \* the socket whose send_json broadcast awaits
    disconnected,         \* broadcast: the local set `disconnected`
    delivered,            \* the sockets to which broadcast has sent the message
    broadcast_outcome,    \* how broadcast ended
    changes,              \* connect and disconnect calls made so far
    fetcher,              \* the yfinance fetcher that is running
    history,              \* what ticker.history does at each of its calls
    attempt,              \* the loop variable of the retry loop
    attempts,             \* ticker.history calls made so far
    sleeps,               \* the waits slept so far, in seconds
    fetch_pc,             \* where the fetcher stands
    fetch_result,         \* the data returned or the exception last raised
    analysis_request,     \* the body of the last POST /analyze
    analysis_response     \* its response: the status and the analyzer steps run

analyzer_vars == <<data, states, technical_indicators, indicator_config, current_state,
                   state_characteristics, current_characteristics, last_call, args,
                   outcome, result, provider_calls, calls, other>>

limiter_vars == <<requests_per_minute, test_mode, request_counts, last_cleanup, clock,
                  in_flight, responses, forwarded, dispatched>>

handler_vars == <<market_id, queue_manager, websocket, handler_pc, queue_calls, received>>

manager_vars == <<active_connections, client_state, broadcast_pc, iterating, sending,
                  disconnected, delivered, broadcast_outcome, changes>>

fetcher_vars == <<fetcher, history, attempt, attempts, sleeps, fetch_pc, fetch_result>>

endpoint_vars == <<analysis_request, analysis_response>>

service_vars == <<handler_vars, manager_vars, fetcher_vars, endpoint_vars>>

vars == <<analyzer_vars, limiter_vars, service_vars>>

----------------------------------------------------------------------------
(* Bounds of the model *)

\* series of historical_window + 1 .. historical_window + MaxTail bars are loaded
MaxTail == 2
\* identify_market_states is called with n_states in 2 .. MaxStates
MaxStates == 3
\* method calls per behaviour
MaxCalls == 4
\* RateLimiter is constructed with requests_per_minute in 0 .. MaxLimit
MaxLimit == 2
\* dispatch calls per behaviour
MaxRequests == 3
\* the clock advances in steps of TickSeconds, up to MaxClock
TickSeconds == 20
MaxClock == 120
\* messages receive_text returns on one connection
MaxMessages == 2
\* connect and disconnect calls around one broadcast
MaxChanges == 2
\* names in the indicators list of a request
MaxIndicators == 2

----------------------------------------------------------------------------
(* Float arithmetic *)

Abs(x) == IF x < 0 THEN -x ELSE x

Sign(x) == IF x < 0 THEN -1 ELSE IF x > 0 THEN 1 ELSE 0

RECURSIVE GCD(_, _)
GCD(a, b) == IF b = 0 THEN a ELSE GCD(b, a % b)

\* the float n/d in lowest terms (d >= 0; d = 0 gives nan / inf / -inf)
F(n, d) ==
    IF d = 0 THEN [n |-> Sign(n), d |-> 0]
    ELSE LET g == GCD(Abs(n), d) IN [n |-> n \div g, d |-> d \div g]

Int2F(k) == [n |-> k, d |-> 1]

NaN == [n |-> 0, d |-> 0]

IsNaN(a) == a.d = 0 /\ a.n = 0

IsFinite(a) == a.d > 0

FMul(a, b) == F(a.n * b.n, a.d * b.d)

\* 1/a as numpy computes it: 1/0 is inf, 1/inf is 0, 1/nan is nan
FRecip(a) ==
    IF a.d = 0 THEN (IF a.n = 0 THEN NaN ELSE Int2F(0))
    ELSE IF a.n = 0 THEN [n |-> 1, d |-> 0]
    ELSE F(Sign(a.n) * a.d, Abs(a.n))

\* a / b on numpy floats: never raises, x/0 is +-inf and 0/0 is nan
FDiv(a, b) == FMul(a, FRecip(b))

FAdd(a, b) ==
    IF a.d = 0 /\ b.d = 0
    THEN (IF a.n = b.n THEN a ELSE NaN)
    ELSE F(a.n * b.d + b.n * a.d, a.d * b.d)

FNeg(a) == [n |-> -a.n, d |-> a.d]

FSub(a, b) == FAdd(a, FNeg(b))

FAbs(a) == [n |-> Abs(a.n), d |-> a.d]

\* a < b; every comparison with nan is false
FLt(a, b) ==
    IF IsNaN(a) \/ IsNaN(b) THEN FALSE
    ELSE IF a.d = 0 /\ b.d = 0 THEN a.n < b.n
    ELSE a.n * b.d < b.n * a.d

FGt(a, b) == FLt(b, a)

FLe(a, b) == ~IsNaN(a) /\ ~IsNaN(b) /\ ~FLt(b, a)

\* Python's builtin max(a, b): b replaces a only when b > a
PyMax(a, b) == IF FGt(b, a) THEN b ELSE a

\* Python's builtin min(a, b): b replaces a only when b < a
PyMin(a, b) == IF FLt(b, a) THEN b ELSE a

----------------------------------------------------------------------------
(* Python None *)

None == [none |-> TRUE]

\* self.current_state = None
NoneState == -1

----------------------------------------------------------------------------
(* Configuration: src/src/config/technical_indicators.py *)

\* get_base_config(): a dict of dicts; each inner dict is a function from keys
get_base_config ==
    [rsi |-> [window |-> 14, threshold_percentile |-> Int2F(90), weight |-> Int2F(1)],
     macd |-> [fast_period |-> 12, slow_period |-> 26, signal_period |-> 9,
               threshold_std |-> Int2F(1), weight |-> Int2F(1)],
     stochastic |-> [k_period |-> 14, d_period |-> 3,
                     threshold_percentile |-> Int2F(90), weight |-> Int2F(1)],
     bollinger |-> [window |-> 20, num_std |-> 2]]

\* iteration order of the adjustment_factors dict
FeatureOrder == <<"volatility", "trend_strength", "volume">>

\* get_state_adjustment_factors(): the keys each feature's table holds
AdjustmentKeys(feature) ==
    CASE feature = "volatility" ->
            {"rsi_threshold_scale", "rsi_weight_scale",
             "macd_threshold_scale", "stoch_threshold_scale"}
      [] feature = "trend_strength" ->
            {"rsi_weight_scale", "macd_weight_scale", "macd_threshold_scale"}
      [] feature = "volume" -> {"signal_confidence_scale"}

\* get_state_adjustment_factors(): the lambda stored under (feature, key)
AdjustmentScale(feature, key, x) ==
    CASE feature = "volatility" /\ key = "rsi_threshold_scale" ->
            FAdd(Int2F(1), FMul(F(1, 2), x))
      [] feature = "volatility" /\ key = "rsi_weight_scale" ->
            FDiv(Int2F(1), FAdd(Int2F(1), x))
      [] feature = "volatility" /\ key = "macd_threshold_scale" ->
            FAdd(Int2F(1), x)
      [] feature = "volatility" /\ key = "stoch_threshold_scale" ->
            FAdd(Int2F(1), FMul(F(1, 2), x))
      [] feature = "trend_strength" /\ key = "rsi_weight_scale" ->
            FDiv(Int2F(1), FAdd(Int2F(1), FAbs(x)))
      [] feature = "trend_strength" /\ key = "macd_weight_scale" ->
            FAdd(Int2F(1), FAbs(x))
      [] feature = "trend_strength" /\ key = "macd_threshold_scale" ->
            FSub(Int2F(1), FMul(F(3, 10), FAbs(x)))
      [] feature = "volume" /\ key = "signal_confidence_scale" ->
            FAdd(Int2F(1), FMul(F(1, 5), x))

\* get_indicator_config(): fresh dicts on every call
get_indicator_config ==
    [base_config |-> get_base_config,
     min_signal_confidence |-> F(3, 5)]

\* f'{indicator}_threshold_scale'
ThresholdScaleKey(indicator) ==
    CASE indicator = "rsi" -> "rsi_threshold_scale"
      [] indicator = "macd" -> "macd_threshold_scale"
      [] indicator = "stochastic" -> "stochastic_threshold_scale"
      [] indicator = "bollinger" -> "bollinger_threshold_scale"

\* f'{indicator}_weight_scale'
WeightScaleKey(indicator) ==
    CASE indicator = "rsi" -> "rsi_weight_scale"
      [] indicator = "macd" -> "macd_weight_scale"
      [] indicator = "stochastic" -> "stochastic_weight_scale"
      [] indicator = "bollinger" -> "bollinger_weight_scale"

\* d[key] = value on a dict held as a function
SetKey(d, key, value) == [k \in DOMAIN d \cup {key} |-> IF k = key THEN value ELSE d[k]]

\* d[key] *= scale when key is in d
ScaleKey(d, key, scale) ==
    IF key \in DOMAIN d THEN SetKey(d, key, FMul(d[key], scale)) ELSE d

----------------------------------------------------------------------------
(* get_state_adjusted_config: the scaling loops *)

\* "Adjust thresholds": the body of the inner loop for one indicator's dict
AdjustThresholds(d, indicator, feature, feature_value) ==
    IF ThresholdScaleKey(indicator) \in AdjustmentKeys(feature)
    THEN LET scale == AdjustmentScale(feature, ThresholdScaleKey(indicator), feature_value)
         IN ScaleKey(ScaleKey(d, "threshold_percentile", scale), "threshold_std", scale)
    ELSE d

\* "Adjust weights"
AdjustWeights(d, indicator, feature, feature_value) ==
    IF WeightScaleKey(indicator) \in AdjustmentKeys(feature)
    THEN SetKey(d, "weight",
                FMul(d.weight,
                     AdjustmentScale(feature, WeightScaleKey(indicator), feature_value)))
    ELSE d

\* one pass of `for indicator in base_config` for one feature
AdjustForFeature(config, feature, feature_value) ==
    [indicator \in DOMAIN config |->
        AdjustWeights(AdjustThresholds(config[indicator], indicator, feature, feature_value),
                      indicator, feature, feature_value)]

\* `for feature, adjustments in adjustment_factors.items()` over features[i..]
RECURSIVE AdjustFrom(_, _, _)
AdjustFrom(config, characteristics, i) ==
    IF i > Len(FeatureOrder) THEN config
    ELSE AdjustFrom(AdjustForFeature(config, FeatureOrder[i],
                                     characteristics[FeatureOrder[i]]),
                    characteristics, i + 1)

\* the dict the loops leave behind when they start from `config`
ApplyAdjustments(config, characteristics) == AdjustFrom(config, characteristics, 1)

\* base_config = self.indicator_config['base_config'].copy(): dict.copy() is
\* shallow, so the copy's inner dicts ARE the inner dicts of the stored base
\* configuration and every `*=` of the loops is a write to the stored one.
\* `stored` is the base configuration before the call, `written` the copy
\* after the loops; the value is the stored base configuration afterwards.
BaseAfterCopyWrites(stored, written) == written

----------------------------------------------------------------------------
(* Arrays.                                                                 *)
(*                                                                         *)
(* A pandas Series / numpy array is held run-length encoded: a sequence of *)
(* runs [count, value], count >= 1, no two neighbouring runs with the same *)
(* value.  Positions count from 0 as in the code.                          *)

\* the array of `count` copies of value (np.zeros(count) for value 0)
ARepeat(value, count) ==
    IF count <= 0 THEN <<>> ELSE <<[count |-> count, value |-> value]>>

\* canonical form: neighbouring runs of one value merged
RECURSIVE Compress(_)
Compress(a) ==
    IF Len(a) <= 1 THEN a
    ELSE LET rest == Compress(Tail(a)) IN
         IF a[1].value = rest[1].value
         THEN <<[count |-> a[1].count + rest[1].count, value |-> a[1].value]>> \o Tail(rest)
         ELSE <<a[1]>> \o rest

\* len(a)
RECURSIVE ALen(_)
ALen(a) == IF a = <<>> THEN 0 ELSE a[1].count + ALen(Tail(a))

\* a.iloc[i] for 0 <= i < len(a)
RECURSIVE At(_, _)
At(a, i) == IF i < a[1].count THEN a[1].value ELSE At(Tail(a), i - a[1].count)

\* a[n:]
RECURSIVE ADrop(_, _)
ADrop(a, n) ==
    IF a = <<>> \/ n <= 0 THEN a
    ELSE IF n >= a[1].count THEN ADrop(Tail(a), n - a[1].count)
    ELSE <<[count |-> a[1].count - n, value |-> a[1].value]>> \o Tail(a)

\* a[:n]
RECURSIVE ATake(_, _)
ATake(a, n) ==
    IF a = <<>> \/ n <= 0 THEN <<>>
    ELSE IF n >= a[1].count THEN <<a[1]>> \o ATake(Tail(a), n - a[1].count)
    ELSE <<[count |-> n, value |-> a[1].value]>>

\* a.iloc[lo:hi]
ASlice(a, lo, hi) == ATake(ADrop(a, lo), hi - lo)

\* a[i] = value for 0 <= i < len(a)
ASet(a, i, value) ==
    Compress(ATake(a, i) \o <<[count |-> 1, value |-> value]>> \o ADrop(a, i + 1))

\* the array of Op(x) for the entries x of a
AMap(a, Op(_)) ==
    Compress([k \in DOMAIN a |-> [count |-> a[k].count, value |-> Op(a[k].value)]])

\* the array of pairs <<a[i], b[i]>> of two arrays of one length
RECURSIVE AZip(_, _)
AZip(a, b) ==
    IF a = <<>> \/ b = <<>> THEN <<>>
    ELSE LET c == IF a[1].count < b[1].count THEN a[1].count ELSE b[1].count
         IN <<[count |-> c, value |-> <<a[1].value, b[1].value>>]>>
            \o AZip(ADrop(a, c), ADrop(b, c))

\* the sum of a float array
RECURSIVE ASum(_)
ASum(a) ==
    IF a = <<>> THEN Int2F(0)
    ELSE FAdd(FMul(Int2F(a[1].count), a[1].value), ASum(Tail(a)))

\* the number of entries equal to value
RECURSIVE ACount(_, _)
ACount(a, value) ==
    IF a = <<>> THEN 0
    ELSE (IF a[1].value = value THEN a[1].count ELSE 0) + ACount(Tail(a), value)

\* the values an array holds
AValues(a) == {a[k].value : k \in DOMAIN a}

----------------------------------------------------------------------------
(* OHLCV series.                                                           *)
(*                                                                         *)
(* The formulas of pandas, ta and scikit-learn are outside the repository, *)
(* so a bar carries what they derive for it: its feature row (after        *)
(* fillna(0)), its projected point, its indicator values and its volume.   *)
(* The frames of the model are leading warm-up bars followed by a tail of  *)
(* equal bars.                                                             *)

\* historical_window = 100  (look back period of generate_trading_signals)
historical_window == 100

\* a bar before the rolling windows have filled: every feature is NaN -> 0
WarmupBar ==
    [features |-> [volatility |-> Int2F(0), trend_strength |-> Int2F(0),
                   volume |-> Int2F(0), return_dispersion |-> Int2F(0)],
     pca |-> <<Int2F(0), Int2F(0)>>,
     rsi |-> Int2F(50), macd |-> Int2F(0), macd_signal |-> Int2F(0),
     macd_history_std |-> Int2F(1),
     stoch_k |-> Int2F(50), volume |-> Int2F(1)]

\* a volatile bar with oversold readings and a volume spike
VolatileBar ==
    [features |-> [volatility |-> Int2F(1), trend_strength |-> Int2F(0),
                   volume |-> Int2F(2), return_dispersion |-> Int2F(1)],
     pca |-> <<Int2F(1), Int2F(0)>>,
     rsi |-> Int2F(20), macd |-> Int2F(3), macd_signal |-> Int2F(0),
     macd_history_std |-> Int2F(1),
     stoch_k |-> Int2F(10), volume |-> Int2F(4)]

\* a bar in a down trend with overbought readings
TrendingBar ==
    [features |-> [volatility |-> Int2F(0), trend_strength |-> Int2F(-1),
                   volume |-> Int2F(1), return_dispersion |-> Int2F(0)],
     pca |-> <<Int2F(-1), Int2F(1)>>,
     rsi |-> Int2F(80), macd |-> F(-1, 2), macd_signal |-> Int2F(0),
     macd_history_std |-> Int2F(1),
     stoch_k |-> Int2F(90), volume |-> Int2F(1)]

TailBars == {WarmupBar, VolatileBar, TrendingBar}

SeriesLengths == {1, 2, historical_window} \cup
                 (historical_window + 1 .. historical_window + MaxTail)

\* number of tail bars of a frame of `length` bars
TailLen(length) ==
    IF length > historical_window THEN length - historical_window ELSE 1

\* the bars of a frame: warm-up bars, then the tail
FrameBars(length, tail) ==
    Compress(ARepeat(WarmupBar, length - TailLen(length)) \o ARepeat(tail, TailLen(length)))

\* the frames a provider can return; the columns are capitalised ("Close")
\* as yfinance names them, or already lower case
ProviderFrames ==
    {[bars |-> FrameBars(length, tail), columns |-> columns] :
        length \in SeriesLengths, tail \in TailBars, columns \in {"Capitalised", "lower"}}

\* MarketAnalyzer._standardize_columns: rename Close/Open/High/Low/Volume
_standardize_columns(frame) == [frame EXCEPT !.columns = "lower"]

\* len(self.data)
FrameLen(frame) == ALen(frame.bars)

----------------------------------------------------------------------------
(* calculate_technical_indicators *)

\* the indicator series ta derives from a frame, index-aligned with it.
\* Only the series generate_trading_signals reads are kept (stoch_d and the
\* Bollinger bands are written too and never read back by the engine).
\* macd_history_std[i] stands for (macd - macd_signal).iloc[i-100:i].std(),
\* which the code derives from these series when it generates signals; it
\* is carried with them because a square root has no exact value here.
IndicatorSeries(frame) ==
    [rsi |-> AMap(frame.bars, LAMBDA bar : bar.rsi),
     macd |-> AMap(frame.bars, LAMBDA bar : bar.macd),
     macd_signal |-> AMap(frame.bars, LAMBDA bar : bar.macd_signal),
     macd_history_std |-> AMap(frame.bars, LAMBDA bar : bar.macd_history_std),
     stoch_k |-> AMap(frame.bars, LAMBDA bar : bar.stoch_k)]

\* self.technical_indicators = {}
NoIndicators == [x \in {} |-> 0]

\* the state a call of calculate_technical_indicators leaves, and how it ends
calculate_technical_indicators(self) ==
    IF self.data = None
    THEN [self |-> self, outcome |-> "ValueError"]
    ELSE [self |-> [self EXCEPT !.technical_indicators = IndicatorSeries(self.data)],
          outcome |-> "returned"]

----------------------------------------------------------------------------
(* identify_market_states *)

\* PCA(n_components=2): the number of components asked for
n_components == 2

\* the `features` frame: one row of four features per bar
Features(frame) == AMap(frame.bars, LAMBDA bar : bar.features)

\* self.pca_result: one projected point per bar
PcaResult(frame) == AMap(frame.bars, LAMBDA bar : bar.pca)

\* np.unique(self.pca_result, axis=0)
UniquePoints(pca_result) == AValues(pca_result)

\* actual_n_states = min(n_states, len(unique_points))
ActualNStates(n_states, unique_points) ==
    IF n_states < Cardinality(unique_points) THEN n_states
    ELSE Cardinality(unique_points)

\* KMeans(n_clusters=k).fit_predict on points with at least k distinct values:
\* equal points share a label and every label 0..k-1 is used; which points
\* share a cluster and how clusters are numbered is the library's choice.
KMeansLabelings(unique_points, k) ==
    {f \in [unique_points -> 0 .. k - 1] : \A c \in 0 .. k - 1 : \E p \in unique_points : f[p] = c}

\* values[state_mask]: the sum of the entries whose bar is in `state`
MaskedSum(labels, values, state) ==
    ASum(AMap(AZip(labels, values),
              LAMBDA pair : IF pair[1] = state THEN pair[2] ELSE Int2F(0)))

\* safe_mean over the bars of the state: nan for no bars, else the mean
SafeMean(total, count) == IF count = 0 THEN NaN ELSE FDiv(total, Int2F(count))

\* the record stored in self.state_characteristics[state]
Characteristics(features, pca_result, labels, state) ==
    LET count == ACount(labels, state)
        Column(name) == AMap(features, LAMBDA row : row[name])
        Component(c) == AMap(pca_result, LAMBDA point : point[c])
    IN
    [volatility |-> SafeMean(MaskedSum(labels, Column("volatility"), state), count),
     trend_strength |-> SafeMean(MaskedSum(labels, Column("trend_strength"), state), count),
     volume |-> SafeMean(MaskedSum(labels, Column("volume"), state), count),
     return_dispersion |->
         SafeMean(MaskedSum(labels, Column("return_dispersion"), state), count),
     component_1 |-> SafeMean(MaskedSum(labels, Component(1), state), count),
     component_2 |-> SafeMean(MaskedSum(labels, Component(2), state), count)]

\* the states that get an entry: `if not np.any(state_mask): continue`
CharacterisedStates(labels, actual_n_states) ==
    {state \in 0 .. actual_n_states - 1 : ACount(labels, state) > 0}

\* the loop building self.state_characteristics
StateCharacteristics(features, pca_result, labels, actual_n_states) ==
    [state \in CharacterisedStates(labels, actual_n_states) |->
        Characteristics(features, pca_result, labels, state)]

\* self.state_characteristics = None
NoCharacteristics == [x \in {} |-> 0]

\* IdentifiedStates with a state assignment that misses the first bar
IdentifiedStatesUnaligned(self, n_states, labeling) ==
    LET pca_result == PcaResult(self.data)
        actual_n_states == ActualNStates(n_states, UniquePoints(pca_result))
        labels == AMap(pca_result, LAMBDA point : labeling[point])
        chars == StateCharacteristics(Features(self.data), pca_result, labels,
                                      actual_n_states)
        current == At(labels, ALen(labels) - 1)
    IN [self EXCEPT !.states = ADrop(labels, 1),
                    !.state_characteristics = chars,
                    !.current_state = current,
                    !.current_characteristics = chars[current]]

\* IdentifiedStates with the current state taken from the first bar
IdentifiedStatesOfFirstBar(self, n_states, labeling) ==
    LET pca_result == PcaResult(self.data)
        actual_n_states == ActualNStates(n_states, UniquePoints(pca_result))
        labels == AMap(pca_result, LAMBDA point : labeling[point])
        chars == StateCharacteristics(Features(self.data), pca_result, labels,
                                      actual_n_states)
        current == At(labels, 0)
    IN [self EXCEPT !.states = labels,
                    !.state_characteristics = chars,
                    !.current_state = current,
                    !.current_characteristics = chars[current]]

\* what a successful identify_market_states stores, from the clustering on
IdentifiedStates(self, n_states, labeling) ==
    LET pca_result == PcaResult(self.data)
        actual_n_states == ActualNStates(n_states, UniquePoints(pca_result))
        labels == AMap(pca_result, LAMBDA point : labeling[point])
        chars == StateCharacteristics(Features(self.data), pca_result, labels,
                                      actual_n_states)
        current == At(labels, ALen(labels) - 1)
    IN [self EXCEPT !.states = labels,
                    !.state_characteristics = chars,
                    !.current_state = current,
                    !.current_characteristics = chars[current]]

\* identify_market_states without the test for a missing series
identify_market_states_unchecked(self, n_states, labeling) ==
    IF self.data = None THEN [self |-> self, outcome |-> "returned"]
    ELSE IF FrameLen(self.data) < n_components THEN [self |-> self, outcome |-> "ValueError"]
    ELSE [self |-> IdentifiedStates(self, n_states, labeling), outcome |-> "returned"]

\* the state a call of identify_market_states(n_states) leaves and how it
\* ends; `labeling` is the clustering KMeans returns.  PCA.fit_transform
\* raises ValueError when the frame has fewer rows than n_components.
identify_market_states(self, n_states, labeling) ==
    IF self.data = None THEN [self |-> self, outcome |-> "ValueError"]
    ELSE IF FrameLen(self.data) < n_components THEN [self |-> self, outcome |-> "ValueError"]
    ELSE [self |-> IdentifiedStates(self, n_states, labeling), outcome |-> "returned"]

\* the clusterings KMeans can return for a call on this analyzer
Labelings(self, n_states) ==
    IF self.data = None THEN {<<>>}
    ELSE IF FrameLen(self.data) < n_components THEN {<<>>}
    ELSE LET unique_points == UniquePoints(PcaResult(self.data))
         IN KMeansLabelings(unique_points, ActualNStates(n_states, unique_points))

----------------------------------------------------------------------------
(* get_state_adjusted_config *)

\* `self.current_state is None or not hasattr(self, 'current_characteristics')`
StateUndefined(self) ==
    self.current_state = NoneState \/ self.current_characteristics = None

\* the state a call of get_state_adjusted_config leaves and the dict it returns
get_state_adjusted_config(self) ==
    IF StateUndefined(self)
    THEN [self |-> self, config |-> self.indicator_config.base_config]
    ELSE
      LET stored == self.indicator_config.base_config
          written == ApplyAdjustments(stored, self.current_characteristics)
      IN [self |-> [self EXCEPT !.indicator_config.base_config =
                                    BaseAfterCopyWrites(stored, written)],
          config |-> written]

----------------------------------------------------------------------------
(* generate_trading_signals *)

\* n_states: int = 3, the default identify_market_states runs with
default_n_states == 3

\* SignalThresholds() of src/src/api/models/analysis.py with its defaults
DefaultThresholds ==
    [rsi_oversold |-> Int2F(30), rsi_overbought |-> Int2F(70), rsi_weight |-> F(2, 5),
     macd_threshold_std |-> F(3, 2), macd_weight |-> F(2, 5),
     stoch_oversold |-> Int2F(20), stoch_overbought |-> Int2F(80), stoch_weight |-> F(1, 5),
     min_confidence |-> F(1, 2)]

\* SignalThresholds(rsi_weight=0, macd_weight=0, stoch_weight=0): weights are ge=0.0
ZeroWeightThresholds ==
    [DefaultThresholds EXCEPT !.rsi_weight = Int2F(0), !.macd_weight = Int2F(0),
                              !.stoch_weight = Int2F(0)]

\* the `thresholds` arguments of the model (None: no override)
ThresholdArgs == {None, DefaultThresholds, ZeroWeightThresholds}

\* "Override config with provided thresholds if any": the writes to config
OverrideConfig(config, thresholds) ==
    IF thresholds = None THEN config
    ELSE [config EXCEPT
            !.rsi = SetKey(SetKey(SetKey(@, "oversold", thresholds.rsi_oversold),
                                  "overbought", thresholds.rsi_overbought),
                           "weight", thresholds.rsi_weight),
            !.macd = SetKey(SetKey(@, "threshold_std", thresholds.macd_threshold_std),
                            "weight", thresholds.macd_weight),
            !.stochastic = SetKey(SetKey(SetKey(@, "oversold", thresholds.stoch_oversold),
                                         "overbought", thresholds.stoch_overbought),
                                  "weight", thresholds.stoch_weight)]

\* self.indicator_config['min_signal_confidence'] = thresholds.min_confidence
OverrideMinConfidence(min_signal_confidence, thresholds) ==
    IF thresholds = None THEN min_signal_confidence ELSE thresholds.min_confidence

\* config is the dict get_state_adjusted_config returned: its inner dicts are
\* the inner dicts of the stored base configuration (shallow copy, or the
\* stored dict itself), so the override's writes land in the stored one.
BaseAfterOverride(stored, overridden) == overridden

\* 1 if value < oversold else -1 if value > overbought else 0
BandSignal(value, oversold, overbought) ==
    IF FLt(value, oversold) THEN 1
    ELSE IF FGt(value, overbought) THEN -1 ELSE 0

\* the look back of the volume mean
volume_window == 20

\* self.data['volume']
Volume(frame) == AMap(frame.bars, LAMBDA bar : bar.volume)

\* data['volume'].iloc[i] / data['volume'].iloc[i-20:i].mean()
VolumeScale(frame, i) ==
    LET window == ASlice(Volume(frame), i - volume_window, i)
    IN FDiv(At(Volume(frame), i), FDiv(ASum(window), Int2F(ALen(window))))

\* sum(s * st * w for ...): signals are ints, strengths and weights floats
WeightedSignal(signals, strengths, weights) ==
    FAdd(FAdd(FMul(FMul(Int2F(signals[1]), strengths[1]), weights[1]),
              FMul(FMul(Int2F(signals[2]), strengths[2]), weights[2])),
         FMul(FMul(Int2F(signals[3]), strengths[3]), weights[3]))

\* composite_signals[i] = weighted_signal / total_weight (numpy division)
CompositeSignal(weighted_signal, total_weight) == FDiv(weighted_signal, total_weight)

\* confidence_scale * min(max(abs(composite), min_signal_confidence), 1.0)
Confidence(composite, min_signal_confidence, confidence_scale) ==
    FMul(confidence_scale,
         PyMin(PyMax(FAbs(composite), min_signal_confidence), Int2F(1)))

\* the body of the loop for bar i: composite signal and confidence
SignalAt(ti, frame, config, min_signal_confidence, i) ==
    LET rsi == At(ti.rsi, i)
        rsi_signal == BandSignal(rsi, config.rsi.oversold, config.rsi.overbought)
        rsi_strength == FAbs(FDiv(FSub(rsi, Int2F(50)), Int2F(50)))
        macd_history_std == At(ti.macd_history_std, i)
        macd_threshold == FMul(config.macd.threshold_std, macd_history_std)
        macd_diff == FSub(At(ti.macd, i), At(ti.macd_signal, i))
        macd_signal == IF FGt(macd_diff, macd_threshold) THEN 1
                       ELSE IF FLt(macd_diff, FNeg(macd_threshold)) THEN -1 ELSE 0
        macd_strength == FDiv(FAbs(macd_diff), macd_history_std)
        stoch_k == At(ti.stoch_k, i)
        stoch_signal == BandSignal(stoch_k, config.stochastic.oversold,
                                   config.stochastic.overbought)
        stoch_strength == PyMin(FDiv(FAbs(FSub(stoch_k, Int2F(50))), Int2F(50)), Int2F(1))
        weights == <<config.rsi.weight, config.macd.weight, config.stochastic.weight>>
        weighted_signal == WeightedSignal(<<rsi_signal, macd_signal, stoch_signal>>,
                                          <<rsi_strength, macd_strength, stoch_strength>>,
                                          weights)
        total_weight == FAdd(FAdd(weights[1], weights[2]), weights[3])
        composite == CompositeSignal(weighted_signal, total_weight)
        confidence_scale == FAdd(Int2F(1), FMul(F(1, 5), VolumeScale(frame, i)))
    IN [composite |-> composite,
        confidence |-> Confidence(composite, min_signal_confidence, confidence_scale)]

\* the exception the loop body raises at bar i, or "none": a dict read of a
\* key that is not there is a KeyError, .iloc[i] beyond the end of the
\* indicator series an IndexError
ErrorAt(ti, config, i) ==
    IF "rsi" \notin DOMAIN ti THEN "KeyError"
    ELSE IF i >= ALen(ti.rsi) THEN "IndexError"
    ELSE IF "oversold" \notin DOMAIN config.rsi \/ "overbought" \notin DOMAIN config.rsi
         THEN "KeyError"
    ELSE IF "oversold" \notin DOMAIN config.stochastic
            \/ "overbought" \notin DOMAIN config.stochastic
         THEN "KeyError"
    ELSE "none"

\* `for i in range(historical_window, length)` from bar i on: the arrays it
\* leaves, or the exception that ends it
RECURSIVE SignalLoop(_, _, _, _, _, _, _)
SignalLoop(ti, frame, config, min_signal_confidence, arrays, i, length) ==
    IF i >= length THEN [outcome |-> "returned", arrays |-> arrays]
    ELSE IF ErrorAt(ti, config, i) # "none"
         THEN [outcome |-> ErrorAt(ti, config, i), arrays |-> arrays]
    ELSE LET at == SignalAt(ti, frame, config, min_signal_confidence, i)
         IN SignalLoop(ti, frame, config, min_signal_confidence,
                       [composite_signal |-> ASet(arrays.composite_signal, i, at.composite),
                        confidence |-> ASet(arrays.confidence, i, at.confidence)],
                       i + 1, length)

\* "Initialize signal arrays" and the loop
SignalArrays(ti, frame, config, min_signal_confidence) ==
    LET length == FrameLen(frame)
    IN SignalLoop(ti, frame, config, min_signal_confidence,
                  [composite_signal |-> ARepeat(Int2F(0), length),
                   confidence |-> ARepeat(Int2F(0), length)],
                  historical_window, length)

NoResult == [kind |-> "none"]

\* what generate_trading_signals(thresholds) does once the indicators and the
\* current state exist: `after` is the analyzer after the configuration was
\* adjusted and overridden, `config` the dict the loop reads
SignalsFrom(after, config) ==
    LET loop == SignalArrays(after.technical_indicators, after.data, config,
                             after.indicator_config.min_signal_confidence)
    IN IF loop.outcome # "returned"
       THEN [self |-> after, outcome |-> loop.outcome, result |-> NoResult]
       ELSE [self |-> after, outcome |-> "returned",
             result |-> [kind |-> "signals",
                         composite_signal |-> loop.arrays.composite_signal,
                         confidence |-> loop.arrays.confidence,
                         state_characteristics |-> after.state_characteristics,
                         current_state |-> after.current_state]]

\* the analyzer after `config = self.get_state_adjusted_config()` and the
\* override, with the dict the loop reads
ConfigFor(adjusted, thresholds) ==
    LET config == OverrideConfig(adjusted.config, thresholds)
    IN [config |-> config,
        self |-> [adjusted.self EXCEPT
                    !.indicator_config.base_config =
                        IF thresholds = None THEN @ ELSE BaseAfterOverride(@, config),
                    !.indicator_config.min_signal_confidence =
                        OverrideMinConfidence(@, thresholds)]]

GenerateFromConfig(self, thresholds) ==
    LET c == ConfigFor(get_state_adjusted_config(self), thresholds)
    IN SignalsFrom(c.self, c.config)

\* AutoIndicators without the call it makes
AutoIndicatorsSkipped(self) == [self |-> self, outcome |-> "returned"]

\* `if not self.technical_indicators: self.calculate_technical_indicators()`
AutoIndicators(self) ==
    IF self.technical_indicators = NoIndicators
    THEN calculate_technical_indicators(self)
    ELSE [self |-> self, outcome |-> "returned"]

\* AutoStates without the call it makes
AutoStatesSkipped(self, labeling) == [self |-> self, outcome |-> "returned"]

\* AutoStates taking the current state from the first bar of the series
AutoStatesOfFirstBar(self, labeling) ==
    IF self.current_state # NoneState THEN [self |-> self, outcome |-> "returned"]
    ELSE LET r == identify_market_states(self, default_n_states, labeling)
         IN IF r.outcome # "returned" THEN r
            ELSE [r EXCEPT !.self = IdentifiedStatesOfFirstBar(self, default_n_states,
                                                               labeling)]

\* `if self.current_state is None: self.identify_market_states()`
AutoStates(self, labeling) ==
    IF self.current_state = NoneState
    THEN identify_market_states(self, default_n_states, labeling)
    ELSE [self |-> self, outcome |-> "returned"]

\* the state a call of generate_trading_signals(thresholds) leaves, how it
\* ends and what it returns
generate_trading_signals(self, thresholds, labeling) ==
    LET a == AutoIndicators(self) IN
    IF a.outcome # "returned"
    THEN [self |-> a.self, outcome |-> a.outcome, result |-> NoResult]
    ELSE LET b == AutoStates(a.self, labeling) IN
         IF b.outcome # "returned"
         THEN [self |-> b.self, outcome |-> b.outcome, result |-> NoResult]
         ELSE GenerateFromConfig(b.self, thresholds)

----------------------------------------------------------------------------
(* Rate limiter: src/src/api/middleware/rate_limiter.py                    *)
(*                                                                         *)
(* time.time() is held in whole seconds.  dispatch has one await, the call *)
(* of call_next: what runs before it and what runs after it are two steps, *)
(* and steps of different dispatch calls interleave.  The several reads of *)
(* time.time() inside one step give one value.  Header values are the      *)
(* integers whose decimal text the code writes with str().  reset() is a   *)
(* facility of the tests and is not a step of the model.                   *)

\* request.client.host of the clients that send requests
Clients == {"10.0.0.1", "10.0.0.2"}

\* self.window_size = 60
window_size == 60

\* requests_per_minute: int = 100
default_requests_per_minute == 100

\* a dict without keys
EmptyDict == [k \in {} |-> 0]

\* the limiter object
Limiter ==
    [requests_per_minute |-> requests_per_minute, test_mode |-> test_mode,
     request_counts |-> request_counts, last_cleanup |-> last_cleanup]

\* the sum of d[t] over the given timestamps
RECURSIVE SumCounts(_, _)
SumCounts(d, timestamps) ==
    IF timestamps = {} THEN 0
    ELSE LET t == CHOOSE x \in timestamps : TRUE
         IN d[t] + SumCounts(d, timestamps \ {t})

\* "Clean up old windows": timestamps before window_start are deleted, then
\* the clients left without a timestamp
CleanedCounts(counts, window_start) ==
    LET kept(c) == {t \in DOMAIN counts[c] : ~(t < window_start)}
    IN [c \in {x \in DOMAIN counts : kept(x) # {}} |-> [t \in kept(c) |-> counts[c][t]]]

\* self.request_counts[client_id] on a defaultdict: a missing key is created
Touched(counts, client_id) ==
    [c \in DOMAIN counts \cup {client_id} |->
        IF c \in DOMAIN counts THEN counts[c] ELSE EmptyDict]

\* every recorded timestamp, whatever its age
RecordedTimestamps(d, window_start) == DOMAIN d

\* "Count requests in current window": the timestamps with
\* timestamp > window_start
CountedTimestamps(d, window_start) == {t \in DOMAIN d : t > window_start}

\* _get_window_stats at time `now`: the limiter it leaves and the tuple
\* (total, remaining, reset_in) it returns
_get_window_stats(self, client_id, now) ==
    LET window_start == now - window_size
        cleanup == now - self.last_cleanup > window_size
        cleaned == IF cleanup THEN CleanedCounts(self.request_counts, window_start)
                   ELSE self.request_counts
        counts == Touched(cleaned, client_id)
        total == SumCounts(counts[client_id],
                           CountedTimestamps(counts[client_id], window_start))
        left == self.requests_per_minute - total
    IN [self |-> [self EXCEPT !.request_counts = counts,
                              !.last_cleanup = IF cleanup THEN now ELSE @],
        total |-> total,
        remaining |-> IF left > 0 THEN left ELSE 0,
        reset_in |-> window_size - (now - window_start)]

\* math.ceil(current_time / 60.0) * 60
ResetTime(current_time) == ((current_time + 59) \div 60) * 60

\* the limit test with the limit itself still allowed
LimitExceeded(total, limit) == total > limit

\* total >= self.requests_per_minute
LimitReached(total, limit) == total >= limit

\* the 429 response of dispatch
RateLimitExceeded(self, current_time) ==
    [status_code |-> 429,
     content |-> [error |-> "Rate limit exceeded"],
     headers |-> ("Content-Type" :> "application/json")
                 @@ ("X-RateLimit-Limit" :> self.requests_per_minute)
                 @@ ("X-RateLimit-Remaining" :> 0)
                 @@ ("X-RateLimit-Reset" :> ResetTime(current_time) - current_time)
                 @@ ("Retry-After" :> ResetTime(current_time) - current_time)]

\* self.request_counts[client_id][now] += 1 on a defaultdict(int)
Recorded(d, now) ==
    [t \in DOMAIN d \cup {now} |->
        IF t = now THEN (IF now \in DOMAIN d THEN d[now] ELSE 0) + 1 ELSE d[t]]

\* dispatch that records the request before it tests the limit
dispatch_recording_rejected(self, request, now) ==
    LET client_id == request.client
        stats == _get_window_stats(self, client_id, now)
        recorded == [stats.self EXCEPT !.request_counts[client_id] = Recorded(@, now)]
    IN IF self.test_mode
       THEN [self |-> self, call_next |-> TRUE, response |-> None,
             waiting |-> [request |-> request, remaining |-> 0, reset |-> 0]]
       ELSE IF LimitReached(stats.total, self.requests_per_minute)
       THEN [self |-> recorded, call_next |-> FALSE,
             response |-> RateLimitExceeded(self, now), waiting |-> None]
       ELSE [self |-> recorded, call_next |-> TRUE, response |-> None,
             waiting |-> [request |-> request, remaining |-> stats.remaining,
                          reset |-> ResetTime(now) - now]]

\* dispatch up to `await call_next(request)` at time `now`: the limiter it
\* leaves, whether call_next is called, the response when it is not, and
\* what the call keeps for after the await when it is
dispatch(self, request, now) ==
    IF self.test_mode
    THEN [self |-> self, call_next |-> TRUE, response |-> None,
          waiting |-> [request |-> request, remaining |-> 0, reset |-> 0]]
    ELSE LET client_id == request.client
             stats == _get_window_stats(self, client_id, now)
         IN IF LimitReached(stats.total, self.requests_per_minute)
            THEN [self |-> stats.self, call_next |-> FALSE,
                  response |-> RateLimitExceeded(self, now), waiting |-> None]
            ELSE [self |-> [stats.self EXCEPT
                              !.request_counts[client_id] = Recorded(@, now)],
                  call_next |-> TRUE, response |-> None,
                  waiting |-> [request |-> request, remaining |-> stats.remaining,
                               reset |-> ResetTime(now) - now]]

\* the response of the application
AppResponse == [status_code |-> 200, content |-> "ok", headers |-> EmptyDict]

\* WithRateLimitHeaders reporting `remaining` as computed before the request
WithRemainingBeforeRequest(self, waiting, response) ==
    [response EXCEPT !.headers =
        ("X-RateLimit-Limit" :> self.requests_per_minute)
        @@ ("X-RateLimit-Remaining" :>
               IF self.test_mode THEN self.requests_per_minute ELSE waiting.remaining)
        @@ ("X-RateLimit-Reset" :> IF self.test_mode THEN 60 ELSE waiting.reset) @@ @]

\* dispatch after the await: the rate limit headers are added
WithRateLimitHeaders(self, waiting, response) ==
    [response EXCEPT !.headers =
        IF self.test_mode
        THEN ("X-RateLimit-Limit" :> self.requests_per_minute)
             @@ ("X-RateLimit-Remaining" :> self.requests_per_minute - 1)
             @@ ("X-RateLimit-Reset" :> 60) @@ @
        ELSE ("X-RateLimit-Limit" :> self.requests_per_minute)
             @@ ("X-RateLimit-Remaining" :> waiting.remaining - 1)
             @@ ("X-RateLimit-Reset" :> waiting.reset) @@ @]

\* RateLimiter.__init__ at time 0
LimiterConstructed(limit, mode) ==
    /\ requests_per_minute = limit
    /\ test_mode = mode
    /\ request_counts = EmptyDict
    /\ last_cleanup = 0
    /\ clock = 0
    /\ in_flight = {}
    /\ responses = EmptyDict
    /\ forwarded = [c \in Clients |-> <<>>]
    /\ dispatched = 0

----------------------------------------------------------------------------
(* The market subscription handler: src/src/api/websocket/handlers.py      *)
(*                                                                         *)
(* handle_market_subscription is a coroutine; the model stands at one of   *)
(* its awaits and each step runs the code up to the next one.  A socket    *)
(* operation succeeds or raises; once one has raised the client is gone    *)
(* and every later operation on the socket raises too.  receive_text      *)
(* returns a message or raises.                                            *)

\* VALID_MARKETS
VALID_MARKETS == {"BTCUSD", "BTC-USD", "ETHUSD", "ETH-USD"}

\* the market ids a client asks for
MarketIds == VALID_MARKETS \cup {"INVALID", "AAPL"}

\* the queue_manager argument: None, or a QueueManager in test mode, one
\* with a Redis client, or one with neither
QueueManagers == {"None", "test_mode", "redis_client", "no_redis_client"}

\* QueueManager.subscribe_to_market: how the call can end.  With a Redis
\* client the call passes (market_id, client_id) to
\* RedisClient.subscribe_to_market(self, market_id), which raises TypeError
subscribe_to_market(manager, market) ==
    IF manager = "test_mode"
    THEN {IF market \notin {"BTC-USD", "ETH-USD", "AAPL", "GOOGL", "MSFT"}
          THEN "False" ELSE "True"}
    ELSE IF manager = "redis_client" THEN {"raises"}
    ELSE {"True"}

\* QueueManager.unsubscribe_from_market: how the call can end
unsubscribe_from_market(manager, market) ==
    IF manager = "redis_client" THEN {"raises"} ELSE {"True"}

\* the invalid market message without the market id
UnnamedMarketMessage(market) ==
    [type |-> "error", message |-> <<"Invalid market ID">>]

\* f"Invalid market ID: {market_id}. Valid markets are: {...}"
InvalidMarketMessage(market) ==
    [type |-> "error",
     message |-> <<"Invalid market ID: ", market, ". Valid markets are: ", VALID_MARKETS>>]

\* f"Failed to subscribe to market {market_id}"
SubscribeFailedMessage(market) ==
    [type |-> "error", message |-> <<"Failed to subscribe to market ", market>>]

InternalErrorMessage == [type |-> "error", message |-> <<"Internal server error">>]

\* "Send initial market data"; "now" stands for datetime.now(pytz.utc).isoformat()
InitialMarketData(market) ==
    [type |-> "market_data", market_id |-> market, timestamp |-> "now",
     data |-> [price |-> 50000, volume |-> 100]]

\* the replies of the receive loop
Pong == [type |-> "text", data |-> "pong"]

ReceivedMessage(message) == [type |-> "message", data |-> <<"Received: ", message>>]

\* a WebSocket before accept
NewWebSocket == [state |-> "CONNECTING", sent |-> <<>>, close_code |-> 0]

\* how a socket operation can end: after a failure the client is gone
SocketOutcomes == IF websocket.state = "LOST" THEN {"raises"} ELSE {"ok", "raises"}

\* the socket after an operation that raised
Lost == [websocket EXCEPT !.state = "LOST"]

\* await websocket.accept()
Accepted == [websocket EXCEPT !.state = "CONNECTED"]

\* await websocket.send_json(message) / send_text
Sent(message) == [websocket EXCEPT !.sent = Append(@, message)]

\* await websocket.close(code)
Closed(code) == [websocket EXCEPT !.state = "CLOSED", !.close_code = code]

\* one socket operation: on success the socket becomes `after` and the
\* handler goes on at `next`, on failure it goes on at `handler`
SocketStep(after, next, handler) ==
    \E socket_outcome \in SocketOutcomes :
       IF socket_outcome = "ok"
       THEN websocket' = after /\ handler_pc' = next
       ELSE websocket' = Lost /\ handler_pc' = handler

\* no subscription request is being handled
NoSubscription ==
    /\ market_id = "BTC-USD"
    /\ queue_manager = "None"
    /\ websocket = NewWebSocket
    /\ handler_pc = "done"
    /\ queue_calls = <<>>
    /\ received = 0

\* handle_market_subscription is called
SubscriptionRequested ==
    /\ market_id \in MarketIds
    /\ queue_manager \in QueueManagers
    /\ websocket = NewWebSocket
    /\ handler_pc = "accept"
    /\ queue_calls = <<>>
    /\ received = 0

outside_handler == <<analyzer_vars, limiter_vars, manager_vars, fetcher_vars, endpoint_vars>>

\* lines 35-36 and 45: validate the market id, accept the connection
Accept ==
    /\ handler_pc = "accept"
    /\ SocketStep(Accepted,
                  IF market_id \notin VALID_MARKETS THEN "send_invalid"
                  ELSE IF queue_manager # "None" THEN "subscribe" ELSE "send_initial",
                  "except")
    /\ UNCHANGED <<market_id, queue_manager, queue_calls, received, outside_handler>>

\* lines 37-42: the error for an invalid market, close(code=4004), return
RejectInvalidMarket ==
    /\ \/ /\ handler_pc = "send_invalid"
          /\ SocketStep(Sent(InvalidMarketMessage(market_id)), "close_invalid", "except")
       \/ /\ handler_pc = "close_invalid"
          /\ SocketStep(Closed(4004), "finally", "except")
    /\ UNCHANGED <<market_id, queue_manager, queue_calls, received, outside_handler>>

\* lines 48-51 and 58: await queue_manager.subscribe_to_market
Subscribe ==
    /\ handler_pc = "subscribe"
    /\ \E success \in subscribe_to_market(queue_manager, market_id) :
          /\ queue_calls' = Append(queue_calls, [op |-> "subscribe_to_market",
                                                 outcome |-> success])
          /\ handler_pc' = CASE success = "True" -> "send_initial"
                             [] success = "False" -> "send_failed"
                             [] success = "raises" -> "send_internal"
    /\ UNCHANGED <<market_id, queue_manager, websocket, received, outside_handler>>

\* lines 52-57: the subscription failed; an exception here is caught at line 58
SubscribeFailed ==
    /\ \/ /\ handler_pc = "send_failed"
          /\ SocketStep(Sent(SubscribeFailedMessage(market_id)), "close_failed",
                        "send_internal")
       \/ /\ handler_pc = "close_failed"
          /\ SocketStep(Closed(1011), "finally", "send_internal")
    /\ UNCHANGED <<market_id, queue_manager, queue_calls, received, outside_handler>>

\* lines 58-65: the subscription raised
SubscribeRaised ==
    /\ \/ /\ handler_pc = "send_internal"
          /\ SocketStep(Sent(InternalErrorMessage), "close_internal", "except")
       \/ /\ handler_pc = "close_internal"
          /\ SocketStep(Closed(1011), "finally", "except")
    /\ UNCHANGED <<market_id, queue_manager, queue_calls, received, outside_handler>>

\* lines 68-76: the initial market data
SendInitialData ==
    /\ handler_pc = "send_initial"
    /\ SocketStep(Sent(InitialMarketData(market_id)), "receive", "except")
    /\ UNCHANGED <<market_id, queue_manager, queue_calls, received, outside_handler>>

\* lines 81, 89-95: receive_text returns a message, raises WebSocketDisconnect
\* (break) or raises something else (close, break)
Receive ==
    /\ handler_pc = "receive"
    /\ \/ /\ received < MaxMessages
          /\ websocket.state = "CONNECTED"
          /\ \E message \in {"ping", "hello"} :
                handler_pc' = IF message = "ping" THEN "reply_pong" ELSE "reply_message"
          /\ received' = received + 1
          /\ UNCHANGED websocket
       \/ /\ handler_pc' \in {"finally", "close_error"}
          /\ websocket' = Lost
          /\ UNCHANGED received
    /\ UNCHANGED <<market_id, queue_manager, queue_calls, outside_handler>>

\* lines 82-88: the reply; a failed send raises WebSocketDisconnect (line 89)
\* or another exception (line 92), depending on how the transport failed
Reply ==
    /\ handler_pc \in {"reply_pong", "reply_message"}
    /\ \E socket_outcome \in SocketOutcomes :
          IF socket_outcome = "ok"
          THEN /\ websocket' = Sent(IF handler_pc = "reply_pong" THEN Pong
                                    ELSE ReceivedMessage("hello"))
               /\ handler_pc' = "receive"
          ELSE /\ websocket' = Lost
               /\ handler_pc' \in {"finally", "close_error"}
    /\ UNCHANGED <<market_id, queue_manager, queue_calls, received, outside_handler>>

\* line 94: close(code=1011) inside the except clause; what it raises leaves
\* the loop and reaches line 97
CloseAfterError ==
    /\ handler_pc = "close_error"
    /\ SocketStep(Closed(1011), "finally", "except")
    /\ UNCHANGED <<market_id, queue_manager, queue_calls, received, outside_handler>>

\* lines 97-108: every exception that reaches here was raised by an
\* operation on the socket, so the socket is accepted or gone and the
\* accept() of line 101 raises; line 107 swallows it and nothing is sent
UnexpectedError ==
    /\ handler_pc = "except"
    /\ handler_pc' = "finally"
    /\ UNCHANGED <<market_id, queue_manager, websocket, queue_calls, received,
                   outside_handler>>

\* lines 110-116: "Clean up subscription"
CleanUp ==
    /\ handler_pc = "finally"
    /\ IF queue_manager # "None"
       THEN \E unsubscribed \in unsubscribe_from_market(queue_manager, market_id) :
               queue_calls' = Append(queue_calls, [op |-> "unsubscribe_from_market",
                                                   outcome |-> unsubscribed])
       ELSE UNCHANGED queue_calls
    /\ handler_pc' = "done"
    /\ UNCHANGED <<market_id, queue_manager, websocket, received, outside_handler>>

----------------------------------------------------------------------------
(* The connection manager: src/src/api/websocket/connection.py             *)
(*                                                                         *)
(* broadcast iterates over the set active_connections[market_id] and       *)
(* suspends at `await connection.send_json(message)`; connect and          *)
(* disconnect calls of other coroutines run while it is suspended.  The    *)
(* set iterator of CPython raises RuntimeError when the set has another    *)
(* size than at the start of the loop; when the size is the same but the   *)
(* content is not, which elements it still yields is not defined.          *)

\* the sockets that connect to the market
Connections == {"ws1", "ws2", "ws3"}

\* the market of the broadcast
BroadcastMarket == "BTC-USD"

\* what a socket is for broadcast: client_state is CONNECTED and send_json
\* works, client_state is CONNECTED and send_json raises, or client_state is
\* DISCONNECTED
SocketStates == {"CONNECTED", "BROKEN", "DISCONNECTED"}

\* self.active_connections[market_id], or the empty set without the key
Registered(connections) ==
    IF BroadcastMarket \in DOMAIN connections THEN connections[BroadcastMarket] ELSE {}

\* connect after `await websocket.accept()`: lines 29-31
connect(connections, socket) ==
    (BroadcastMarket :> (Registered(connections) \cup {socket}))

\* disconnect: lines 42-45
disconnect(connections, socket) ==
    IF BroadcastMarket \notin DOMAIN connections THEN connections
    ELSE IF connections[BroadcastMarket] \ {socket} = {} THEN EmptyDict
    ELSE (BroadcastMarket :> (connections[BroadcastMarket] \ {socket}))

\* "Clean up disconnected clients": disconnect for each socket of the set
RECURSIVE disconnect_all(_, _)
disconnect_all(connections, sockets) ==
    IF sockets = {} THEN connections
    ELSE LET socket == CHOOSE x \in sockets : TRUE
         IN disconnect_all(disconnect(connections, socket), sockets \ {socket})

\* the set object the loop of line 59 iterates over, as the iterator sees it:
\* the registered sockets while the key holds that object, empty once
\* disconnect has emptied it and deleted the key
IteratedSet(connections, iterator) ==
    IF iterator.attached THEN Registered(connections) ELSE {}

\* ConnectionManager.__init__ with some sockets connected since, and no
\* broadcast running
ManagerIdle(registered) ==
    /\ active_connections = IF registered = {} THEN EmptyDict
                            ELSE (BroadcastMarket :> registered)
    /\ broadcast_pc = "idle"
    /\ iterating = [attached |-> FALSE, size |-> 0, start |-> {}, visited |-> {}]
    /\ sending = None
    /\ disconnected = {}
    /\ delivered = {}
    /\ broadcast_outcome = "none"
    /\ changes = 0

outside_manager == <<analyzer_vars, limiter_vars, handler_vars, fetcher_vars, endpoint_vars>>

\* lines 55-59: broadcast is called; the loop starts
BroadcastStarts ==
    /\ broadcast_pc = "idle"
    /\ IF BroadcastMarket \notin DOMAIN active_connections
       THEN /\ broadcast_pc' = "done"
            /\ broadcast_outcome' = "returned"
            /\ UNCHANGED iterating
       ELSE /\ broadcast_pc' = "loop"
            /\ iterating' = [attached |-> TRUE,
                             size |-> Cardinality(Registered(active_connections)),
                             start |-> Registered(active_connections),
                             visited |-> {}]
            /\ UNCHANGED broadcast_outcome
    /\ UNCHANGED <<active_connections, client_state, sending, disconnected, delivered,
                   changes, outside_manager>>

\* line 59: the iterator finds the set resized and raises RuntimeError,
\* outside the try of line 60
SetChangedSize ==
    /\ broadcast_pc = "loop"
    /\ Cardinality(IteratedSet(active_connections, iterating)) # iterating.size
    /\ broadcast_pc' = "done"
    /\ broadcast_outcome' = "RuntimeError"
    /\ UNCHANGED <<active_connections, client_state, iterating, sending, disconnected,
                   delivered, changes, outside_manager>>

\* lines 59-62: the next socket of the set; send_json is awaited when its
\* client_state is CONNECTED
NextConnection ==
    /\ broadcast_pc = "loop"
    /\ Cardinality(IteratedSet(active_connections, iterating)) = iterating.size
    /\ \E connection \in IteratedSet(active_connections, iterating) \ iterating.visited :
          /\ iterating' = [iterating EXCEPT !.visited = @ \cup {connection}]
          /\ IF client_state[connection] = "DISCONNECTED"
             THEN UNCHANGED <<broadcast_pc, sending>>
             ELSE broadcast_pc' = "sending" /\ sending' = connection
    /\ UNCHANGED <<active_connections, client_state, disconnected, delivered,
                   broadcast_outcome, changes, outside_manager>>

\* lines 62-65: send_json returns or raises
SendReturns ==
    /\ broadcast_pc = "sending"
    /\ IF client_state[sending] = "CONNECTED"
       THEN delivered' = delivered \cup {sending} /\ UNCHANGED disconnected
       ELSE disconnected' = disconnected \cup {sending} /\ UNCHANGED delivered
    /\ broadcast_pc' = "loop"
    /\ sending' = None
    /\ UNCHANGED <<active_connections, client_state, iterating, broadcast_outcome,
                   changes, outside_manager>>

\* lines 59, 68-69: the iterator is exhausted; the sockets whose send failed
\* are disconnected and broadcast returns.  On a set that kept its size but
\* not its content the iterator may be exhausted before every socket was
\* yielded
LoopEnds ==
    /\ broadcast_pc = "loop"
    /\ Cardinality(IteratedSet(active_connections, iterating)) = iterating.size
    /\ \/ IteratedSet(active_connections, iterating) \subseteq iterating.visited
       \/ IteratedSet(active_connections, iterating) # iterating.start
    /\ active_connections' = disconnect_all(active_connections, disconnected)
    /\ broadcast_pc' = "done"
    /\ broadcast_outcome' = "returned"
    /\ UNCHANGED <<client_state, iterating, sending, disconnected, delivered, changes,
                   outside_manager>>

\* another coroutine runs connect while broadcast is suspended or not running
Connect ==
    /\ broadcast_pc \in {"idle", "sending"}
    /\ changes < MaxChanges
    /\ \E socket \in Connections \ Registered(active_connections) :
          /\ active_connections' = connect(active_connections, socket)
          /\ iterating' = [iterating EXCEPT
                              !.attached = @ /\ BroadcastMarket \in DOMAIN active_connections]
    /\ changes' = changes + 1
    /\ UNCHANGED <<client_state, broadcast_pc, sending, disconnected, delivered,
                   broadcast_outcome, outside_manager>>

\* another coroutine runs disconnect while broadcast is suspended or not running
Disconnect ==
    /\ broadcast_pc \in {"idle", "sending"}
    /\ changes < MaxChanges
    /\ \E socket \in Registered(active_connections) :
          /\ active_connections' = disconnect(active_connections, socket)
          /\ iterating' = [iterating EXCEPT
                              !.attached = @ /\ BroadcastMarket \in DOMAIN active_connections']
    /\ changes' = changes + 1
    /\ UNCHANGED <<client_state, broadcast_pc, sending, disconnected, delivered,
                   broadcast_outcome, outside_manager>>

----------------------------------------------------------------------------
(* The yfinance fetchers: rate_limited_fetch of src/src/market_analysis.py *)
(* and YFinanceProvider.fetch_data of                                      *)
(* src/src/data_providers/yfinance_provider.py, with the settings of       *)
(* src/src/config/rate_limits.py.  Both run the same retry loop.           *)

\* YFINANCE_SETTINGS
YFINANCE_SETTINGS ==
    [CALLS_PER_HOUR |-> 60, PERIOD |-> 3600, MAX_RETRIES |-> 5, BASE_DELAY |-> 1,
     MAX_DELAY |-> 32]

\* get_rate_limit_config('yfinance')
yf_config == YFINANCE_SETTINGS

\* the two functions with the retry loop
Fetchers == {"rate_limited_fetch", "YFinanceProvider.fetch_data"}

\* what one ticker.history call does: returns data, returns an empty frame
\* (ValueError is raised for it), or raises
HistoryOutcomes == {"data", "empty", "raises"}

\* the exception an attempt that did not return data ends with
AttemptError(history_outcome) ==
    IF history_outcome = "empty" THEN "ValueError" ELSE "ConnectionError"

\* 2 ** attempt
RECURSIVE Pow2(_)
Pow2(n) == IF n = 0 THEN 1 ELSE 2 * Pow2(n - 1)

\* the fetcher is called: the loop variable is range(MAX_RETRIES)[0]
FetchCalled ==
    /\ fetcher \in Fetchers
    /\ history \in [1 .. yf_config.MAX_RETRIES -> HistoryOutcomes]
    /\ attempt = 0
    /\ attempts = 0
    /\ sleeps = <<>>
    /\ fetch_pc = "try"
    /\ fetch_result = "none"

\* no fetch is running
NoFetch ==
    /\ fetcher = "rate_limited_fetch"
    /\ history = [k \in 1 .. yf_config.MAX_RETRIES |-> "data"]
    /\ attempt = 0
    /\ attempts = 0
    /\ sleeps = <<>>
    /\ fetch_pc = "done"
    /\ fetch_result = "none"

outside_fetcher == <<analyzer_vars, limiter_vars, handler_vars, manager_vars, endpoint_vars>>

\* the try block: ticker.history is called; data is returned, or the
\* exception is handed to the except clause
Attempt ==
    /\ fetch_pc = "try"
    /\ attempt < yf_config.MAX_RETRIES
    /\ attempts' = attempts + 1
    /\ IF history[attempt + 1] = "data"
       THEN fetch_pc' = "done" /\ fetch_result' = "data"
       ELSE fetch_pc' = "except" /\ fetch_result' = AttemptError(history[attempt + 1])
    /\ UNCHANGED <<fetcher, history, attempt, sleeps, outside_fetcher>>

\* the except clause: the last attempt re-raises; any other computes
\* (2 ** attempt) * config['BASE_WAIT_TIME'], sleeps and goes round the loop;
\* a key the settings do not hold raises KeyError out of the function
Backoff ==
    /\ fetch_pc = "except"
    /\ IF attempt = yf_config.MAX_RETRIES - 1
       THEN /\ fetch_pc' = "done"
            /\ UNCHANGED <<attempt, sleeps, fetch_result>>
       ELSE IF "BASE_WAIT_TIME" \notin DOMAIN yf_config
       THEN /\ fetch_pc' = "done"
            /\ fetch_result' = "KeyError"
            /\ UNCHANGED <<attempt, sleeps>>
       ELSE /\ sleeps' = Append(sleeps, Pow2(attempt) * yf_config["BASE_WAIT_TIME"])
            /\ attempt' = attempt + 1
            /\ fetch_pc' = "try"
            /\ UNCHANGED fetch_result
    /\ UNCHANGED <<fetcher, history, attempts, outside_fetcher>>

----------------------------------------------------------------------------
(* POST /analyze: analyze_market of src/src/api/app.py with the request     *)
(* model AnalysisRequest of src/src/api/models/analysis.py.  FastAPI       *)
(* builds the AnalysisRequest from the body before it calls the endpoint;  *)
(* a validator that raises makes it answer 422 without calling it.         *)

\* SUPPORTED_INDICATORS
SUPPORTED_INDICATORS == {"RSI", "MACD", "BB", "STOCH"}

\* the indicator names a client sends
IndicatorNames == SUPPORTED_INDICATORS \cup {"rsi", "INVALID_INDICATOR"}

\* str.upper() on those names
Upper(name) == IF name = "rsi" THEN "RSI" ELSE name

\* the indicators lists of the requests: up to MaxIndicators names
IndicatorLists == UNION {[1 .. n -> IndicatorNames] : n \in 0 .. MaxIndicators}

\* the request bodies, all with a symbol
AnalysisRequests == [symbol : {"AAPL"}, indicators : IndicatorLists, state_analysis : BOOLEAN]

\* AnalysisRequest.validate_indicators: set(v) - supported_indicators is empty
validate_indicators(v) == {v[i] : i \in DOMAIN v} \subseteq {"RSI", "MACD", "STOCH", "BB"}

\* how the analyzer calls of the endpoint can end
AnalyzerOutcomes == [fetch_data : {"returned", "raises"},
                     calculate_technical_indicators : {"returned", "raises"}]

\* analyze_market: the status of the response and the analyzer steps run
analyze_market(request, analyzer) ==
    LET invalid_indicators ==
            {i \in DOMAIN request.indicators :
                Upper(request.indicators[i]) \notin SUPPORTED_INDICATORS}
    IN IF invalid_indicators # {}
       THEN [status_code |-> 400, steps |-> <<>>]
       ELSE IF analyzer.fetch_data = "raises"
       THEN [status_code |-> 400, steps |-> <<"fetch_data">>]
       ELSE IF analyzer.calculate_technical_indicators = "raises"
       THEN [status_code |-> 500,
             steps |-> <<"fetch_data", "calculate_technical_indicators">>]
       ELSE [status_code |-> 200,
             steps |-> <<"fetch_data", "calculate_technical_indicators">>
                       \o (IF request.state_analysis
                           THEN <<"identify_market_states">> ELSE <<>>)
                       \o <<"generate_trading_signals">>]

\* POST /analyze: the body is validated into an AnalysisRequest, then the
\* endpoint runs
post_analyze(request, analyzer) ==
    IF ~validate_indicators(request.indicators)
    THEN [status_code |-> 422, steps |-> <<>>]
    ELSE analyze_market(request, analyzer)

\* no request has been posted
NoAnalysis ==
    /\ analysis_request = None
    /\ analysis_response = None

outside_endpoint == <<analyzer_vars, limiter_vars, handler_vars, manager_vars,
                      fetcher_vars>>

PostAnalyze ==
    /\ \E request \in AnalysisRequests :
       \E analyzer \in AnalyzerOutcomes :
          /\ analysis_request' = request
          /\ analysis_response' = post_analyze(request, analyzer)
    /\ UNCHANGED outside_endpoint

----------------------------------------------------------------------------
(* The analyzer as a state machine *)

\* the analyzer object
Self ==
    [data |-> data, states |-> states, technical_indicators |-> technical_indicators,
     indicator_config |-> indicator_config, current_state |-> current_state,
     state_characteristics |-> state_characteristics,
     current_characteristics |-> current_characteristics]

\* what provider.fetch_data can do: return a frame, return None, return an
\* empty frame, or raise
ProviderOutcomes ==
    [kind : {"frame"}, frame : ProviderFrames]
    \cup [kind : {"None", "empty", "raises"}, frame : {None}]

\* fetch_data that clears the stored series when the provider fails
fetch_data_clearing(self, provided) ==
    IF provided.kind = "raises"
    THEN [self |-> [self EXCEPT !.data = None], outcome |-> "ProviderError"]
    ELSE IF provided.kind \in {"None", "empty"}
    THEN [self |-> [self EXCEPT !.data = None], outcome |-> "ValueError"]
    ELSE [self |-> [self EXCEPT !.data = _standardize_columns(provided.frame)],
          outcome |-> "returned"]

\* fetch_data: one provider call; the frame is stored only when it is not
\* None and not empty, every failure is logged and re-raised
fetch_data(self, provided) ==
    IF provided.kind = "raises" THEN [self |-> self, outcome |-> "ProviderError"]
    ELSE IF provided.kind \in {"None", "empty"} THEN [self |-> self, outcome |-> "ValueError"]
    ELSE [self |-> [self EXCEPT !.data = _standardize_columns(provided.frame)],
          outcome |-> "returned"]

\* a shared configuration object, as a module-level default would be
SharedConfigObject(instance) == 0

\* the identity of the dicts `indicator_config or get_indicator_config()`
\* gives analyzer number `instance`: get_indicator_config() and the
\* get_base_config() it calls build new dicts on every call
ConfigObject(instance) == instance

\* the attributes __init__ sets when no indicator_config is passed
Constructed ==
    [data |-> None, states |-> <<>>, technical_indicators |-> NoIndicators,
     indicator_config |-> get_indicator_config, current_state |-> NoneState,
     state_characteristics |-> NoCharacteristics, current_characteristics |-> None]

\* the second analyzer: constructed without an indicator_config, it has loaded
\* a series and generated signals with the default thresholds
SecondAnalyzer ==
    LET frame == [bars |-> FrameBars(historical_window + 1, VolatileBar),
                  columns |-> "Capitalised"]
        loaded == fetch_data(Constructed, [kind |-> "frame", frame |-> frame]).self
        labeling == CHOOSE l \in Labelings(loaded, default_n_states) : TRUE
        r == generate_trading_signals(loaded, DefaultThresholds, labeling)
    IN [self |-> r.self, result |-> r.result, config_object |-> ConfigObject(2)]

\* what the second analyzer holds once the first, analyzer number 1, has
\* become `self`: a write to a configuration dict shows in every analyzer
\* holding that dict
SeenByOther(self) ==
    IF other.config_object = ConfigObject(1) /\ self.indicator_config # indicator_config
    THEN [other EXCEPT !.self.indicator_config = self.indicator_config]
    ELSE other

\* the analyzer object becomes `self`
Becomes(self) ==
    /\ other' = SeenByOther(self)
    /\ data' = self.data
    /\ states' = self.states
    /\ technical_indicators' = self.technical_indicators
    /\ indicator_config' = self.indicator_config
    /\ current_state' = self.current_state
    /\ state_characteristics' = self.state_characteristics
    /\ current_characteristics' = self.current_characteristics

NoArgs == [none |-> TRUE]

\* MarketAnalyzer.__init__: self.indicator_config = indicator_config or
\* get_indicator_config(); the argument is stored as given
MarketAnalyzer(config) ==
    /\ data = None
    /\ states = <<>>
    /\ technical_indicators = NoIndicators
    /\ indicator_config = config
    /\ current_state = NoneState
    /\ state_characteristics = NoCharacteristics
    /\ current_characteristics = None
    /\ last_call = "__init__"
    /\ args = NoArgs
    /\ outcome = "returned"
    /\ result = NoResult
    /\ provider_calls = 0
    /\ calls = 0
    /\ other = SecondAnalyzer

\* MarketAnalyzer.__init__ without an explicit indicator_config
AnalyzerConstructed == MarketAnalyzer(get_indicator_config)

\* an explicit indicator_config: the default tables with the oversold and
\* overbought levels the signal loop reads, and `weight` as the RSI weight
ExplicitConfig(weight) ==
    [get_indicator_config EXCEPT
        !.base_config.rsi =
            SetKey(SetKey(SetKey(@, "oversold", Int2F(30)), "overbought", Int2F(70)),
                   "weight", weight),
        !.base_config.stochastic =
            SetKey(SetKey(@, "oversold", Int2F(20)), "overbought", Int2F(80))]

\* the configurations passed to the constructor
ExplicitConfigs == {ExplicitConfig(Int2F(1)), ExplicitConfig(Int2F(-1))}

\* the services before any request
ServicesIdle ==
    /\ NoSubscription
    /\ ManagerIdle({})
    /\ client_state = [socket \in Connections |-> "CONNECTED"]
    /\ NoFetch
    /\ NoAnalysis

Init ==
    /\ AnalyzerConstructed
    /\ LimiterConstructed(default_requests_per_minute, FALSE)
    /\ ServicesIdle

FetchData ==
    /\ calls < MaxCalls
    /\ UNCHANGED <<limiter_vars, service_vars>>
    /\ \E provided \in ProviderOutcomes :
          \E r \in {fetch_data(Self, provided)} :
          /\ Becomes(r.self)
          /\ outcome' = r.outcome
          /\ result' = IF r.outcome = "returned"
                       THEN [kind |-> "frame", frame |-> r.self.data] ELSE NoResult
    /\ provider_calls' = 1
    /\ last_call' = "fetch_data"
    /\ args' = NoArgs
    /\ calls' = calls + 1

CalculateTechnicalIndicators ==
    /\ calls < MaxCalls
    /\ UNCHANGED <<limiter_vars, service_vars>>
    /\ \E r \in {calculate_technical_indicators(Self)} :
          /\ Becomes(r.self)
          /\ outcome' = r.outcome
    /\ result' = NoResult
    /\ last_call' = "calculate_technical_indicators"
    /\ args' = NoArgs
    /\ calls' = calls + 1
    /\ UNCHANGED provider_calls

IdentifyMarketStates ==
    /\ calls < MaxCalls
    /\ UNCHANGED <<limiter_vars, service_vars>>
    /\ \E n_states \in 2 .. MaxStates :
       \E labeling \in Labelings(Self, n_states) :
          \E r \in {identify_market_states(Self, n_states, labeling)} :
          /\ Becomes(r.self)
          /\ outcome' = r.outcome
          /\ args' = [n_states |-> n_states]
    /\ result' = NoResult
    /\ last_call' = "identify_market_states"
    /\ calls' = calls + 1
    /\ UNCHANGED provider_calls

GetStateAdjustedConfig ==
    /\ calls < MaxCalls
    /\ UNCHANGED <<limiter_vars, service_vars>>
    /\ \E r \in {get_state_adjusted_config(Self)} :
          /\ Becomes(r.self)
          /\ result' = [kind |-> "config", config |-> r.config]
    /\ outcome' = "returned"
    /\ last_call' = "get_state_adjusted_config"
    /\ args' = NoArgs
    /\ calls' = calls + 1
    /\ UNCHANGED provider_calls

GenerateTradingSignals ==
    /\ calls < MaxCalls
    /\ UNCHANGED <<limiter_vars, service_vars>>
    /\ \E thresholds \in ThresholdArgs :
       \E labeling \in (IF current_state = NoneState
                        THEN Labelings(Self, default_n_states) ELSE {<<>>}) :
          \E r \in {generate_trading_signals(Self, thresholds, labeling)} :
          /\ Becomes(r.self)
          /\ outcome' = r.outcome
          /\ result' = r.result
          /\ args' = [thresholds |-> thresholds]
    /\ last_call' = "generate_trading_signals"
    /\ calls' = calls + 1
    /\ UNCHANGED provider_calls

Next ==
    \/ FetchData
    \/ CalculateTechnicalIndicators
    \/ IdentifyMarketStates
    \/ GetStateAdjustedConfig
    \/ GenerateTradingSignals

Spec == Init /\ [][Next]_vars

\* the analyzer constructed with an explicit indicator_config
ConfiguredInit ==
    /\ \E config \in ExplicitConfigs : MarketAnalyzer(config)
    /\ LimiterConstructed(default_requests_per_minute, FALSE)
    /\ ServicesIdle

ConfiguredSpec == ConfiguredInit /\ [][Next]_vars

----------------------------------------------------------------------------
(* The rate limiter as a state machine *)

RateInit ==
    /\ AnalyzerConstructed
    /\ \E limit \in 0 .. MaxLimit : \E mode \in BOOLEAN : LimiterConstructed(limit, mode)
    /\ ServicesIdle

\* a request arrives: dispatch runs up to its await, or to its 429 response
Dispatch ==
    /\ dispatched < MaxRequests
    /\ \E client \in Clients :
       \E r \in {dispatch(Limiter, [id |-> dispatched + 1, client |-> client], clock)} :
          /\ request_counts' = r.self.request_counts
          /\ last_cleanup' = r.self.last_cleanup
          /\ IF r.call_next
             THEN /\ in_flight' = in_flight \cup {r.waiting}
                  /\ forwarded' = [forwarded EXCEPT
                                     ![client] = Append(@, [id |-> dispatched + 1,
                                                            at |-> clock])]
                  /\ UNCHANGED responses
             ELSE /\ responses' = (dispatched + 1 :> [client |-> client, at |-> clock,
                                                      response |-> r.response])
                                  @@ responses
                  /\ UNCHANGED <<in_flight, forwarded>>
    /\ dispatched' = dispatched + 1
    /\ UNCHANGED <<requests_per_minute, test_mode, clock, analyzer_vars, service_vars>>

\* call_next returns: dispatch adds the headers and returns the response
CallNextReturns ==
    /\ \E waiting \in in_flight :
          /\ in_flight' = in_flight \ {waiting}
          /\ responses' = (waiting.request.id :>
                              [client |-> waiting.request.client,
                               response |-> WithRateLimitHeaders(Limiter, waiting,
                                                                 AppResponse)])
                          @@ responses
    /\ UNCHANGED <<requests_per_minute, test_mode, request_counts, last_cleanup, clock,
                   forwarded, dispatched, analyzer_vars, service_vars>>

\* time passes
Tick ==
    /\ clock + TickSeconds <= MaxClock
    /\ clock' = clock + TickSeconds
    /\ UNCHANGED <<requests_per_minute, test_mode, request_counts, last_cleanup,
                   in_flight, responses, forwarded, dispatched, analyzer_vars, service_vars>>

RateNext ==
    \/ Dispatch
    \/ CallNextReturns
    \/ Tick

RateSpec == RateInit /\ [][RateNext]_vars

----------------------------------------------------------------------------
(* The subscription handler as a state machine *)

SubscriptionInit ==
    /\ AnalyzerConstructed
    /\ LimiterConstructed(default_requests_per_minute, FALSE)
    /\ SubscriptionRequested
    /\ ManagerIdle({})
    /\ client_state = [socket \in Connections |-> "CONNECTED"]
    /\ NoFetch
    /\ NoAnalysis

SubscriptionNext ==
    \/ Accept
    \/ RejectInvalidMarket
    \/ Subscribe
    \/ SubscribeFailed
    \/ SubscribeRaised
    \/ SendInitialData
    \/ Receive
    \/ Reply
    \/ CloseAfterError
    \/ UnexpectedError
    \/ CleanUp

SubscriptionSpec == SubscriptionInit /\ [][SubscriptionNext]_vars

----------------------------------------------------------------------------
(* The connection manager as a state machine *)

BroadcastInit ==
    /\ AnalyzerConstructed
    /\ LimiterConstructed(default_requests_per_minute, FALSE)
    /\ NoSubscription
    /\ \E registered \in SUBSET Connections : ManagerIdle(registered)
    /\ client_state \in [Connections -> SocketStates]
    /\ NoFetch
    /\ NoAnalysis

BroadcastNext ==
    \/ BroadcastStarts
    \/ SetChangedSize
    \/ NextConnection
    \/ SendReturns
    \/ LoopEnds
    \/ Connect
    \/ Disconnect

BroadcastSpec == BroadcastInit /\ [][BroadcastNext]_vars

----------------------------------------------------------------------------
(* The yfinance fetchers as a state machine *)

RetryInit ==
    /\ AnalyzerConstructed
    /\ LimiterConstructed(default_requests_per_minute, FALSE)
    /\ NoSubscription
    /\ ManagerIdle({})
    /\ client_state = [socket \in Connections |-> "CONNECTED"]
    /\ FetchCalled
    /\ NoAnalysis

RetryNext ==
    \/ Attempt
    \/ Backoff

RetrySpec == RetryInit /\ [][RetryNext]_vars

----------------------------------------------------------------------------
(* POST /analyze as a state machine *)

AnalyzeInit ==
    /\ AnalyzerConstructed
    /\ LimiterConstructed(default_requests_per_minute, FALSE)
    /\ NoSubscription
    /\ ManagerIdle({})
    /\ client_state = [socket \in Connections |-> "CONNECTED"]
    /\ NoFetch
    /\ NoAnalysis

AnalyzeNext == PostAnalyze

AnalyzeSpec == AnalyzeInit /\ [][AnalyzeNext]_vars

----------------------------------------------------------------------------
(* Properties *)

\* the last call was `method` and it returned
Returned(method) == last_call = method /\ outcome = "returned"

\* the thresholds and weights of a configuration
ScaledParameters(config) ==
    <<config.rsi.threshold_percentile, config.rsi.weight,
      config.macd.threshold_std, config.macd.weight,
      config.stochastic.threshold_percentile, config.stochastic.weight>>

\* C1: with a current state defined, every call of get_state_adjusted_config
\* returns the original base thresholds and weights multiplied once by their
\* scale factors, however many calls were made before.
C1_ScaledOncePerCall ==
    (Returned("get_state_adjusted_config") /\ ~StateUndefined(Self))
        => ScaledParameters(result.config)
             = ScaledParameters(ApplyAdjustments(get_base_config, current_characteristics))

\* C2: no operation changes the base configuration: base_config and
\* min_signal_confidence keep the values they had at construction.
C2_BaseConfigUnchanged ==
    /\ indicator_config.base_config = get_indicator_config.base_config
    /\ indicator_config.min_signal_confidence = get_indicator_config.min_signal_confidence

\* C3: while the current state is undefined, get_state_adjusted_config returns
\* the base configuration as constructed, nothing scaled.
C3_UndefinedStateReturnsBase ==
    (Returned("get_state_adjusted_config") /\ current_state = NoneState)
        => result.config = get_base_config

\* C3 happens: the call is made on an analyzer that has a series and
\* indicators but no current state
C3_Witness ==
    /\ Returned("get_state_adjusted_config")
    /\ current_state = NoneState
    /\ data # None
    /\ technical_indicators # NoIndicators

\* the state assignment and characteristics are those of the loaded series
StatesOfLoadedSeries ==
    /\ FrameLen(data) >= n_components
    /\ \E n_states \in 2 .. MaxStates :
       \E labeling \in Labelings(Self, n_states) :
          \E fresh \in {IdentifiedStates(Self, n_states, labeling)} :
             /\ states = fresh.states
             /\ state_characteristics = fresh.state_characteristics
             /\ current_state = fresh.current_state

\* C4: a generate_trading_signals that returns has used indicators, a state
\* assignment and state characteristics computed from the series now loaded,
\* never those of a series fetch_data has since replaced.
C4_SignalsFromLoadedSeries ==
    Returned("generate_trading_signals")
        => /\ technical_indicators = IndicatorSeries(data)
           /\ StatesOfLoadedSeries

\* C5: whenever generate_trading_signals returns, a series is loaded, the
\* indicators are computed and the current state is defined (it computed what
\* was missing); with no series loaded it raises.
C5_PrerequisitesComputed ==
    last_call = "generate_trading_signals"
        => /\ outcome = "returned"
                => /\ data # None
                   /\ technical_indicators # NoIndicators
                   /\ current_state # NoneState
                   /\ result.current_state = current_state
           /\ data = None => outcome = "ValueError" /\ result = NoResult

\* C5 happens: generate_trading_signals is the first call after fetch_data, on
\* a series longer than the look back window, and returns
C5_Witness ==
    /\ Returned("generate_trading_signals")
    /\ calls = 2
    /\ FrameLen(data) > historical_window

\* every entry of a float array lies in [lo, hi]
AllWithin(a, lo, hi) ==
    \A k \in DOMAIN a : FLe(Int2F(lo), a[k].value) /\ FLe(a[k].value, Int2F(hi))

\* C6: for a series longer than the look back window every composite signal
\* returned lies in [-1, 1] and every confidence in [0, 1].
C6_SignalsBounded ==
    (Returned("generate_trading_signals") /\ FrameLen(data) > historical_window)
        => /\ AllWithin(result.composite_signal, -1, 1)
           /\ AllWithin(result.confidence, 0, 1)

\* C7: with effective weights of RSI, MACD and Stochastic all 0 the call does
\* not end in a division-by-zero error and every composite signal is 0.
C7_ZeroWeightsGiveZero ==
    (last_call = "generate_trading_signals" /\ args.thresholds = ZeroWeightThresholds)
        => /\ outcome # "ZeroDivisionError"
           /\ outcome = "returned"
                => result.composite_signal = ARepeat(Int2F(0), FrameLen(data))

\* C8: generate_trading_signals called without thresholds right after
\* calculate_technical_indicators returns, for a series of any length, the four
\* entries with one composite signal and one confidence per bar.
C8_ReturnsSignalsForAnyLength ==
    [][(/\ Returned("calculate_technical_indicators")
        /\ last_call' = "generate_trading_signals"
        /\ args'.thresholds = None)
          => /\ outcome' = "returned"
             /\ {"composite_signal", "confidence", "state_characteristics",
                 "current_state"} \subseteq DOMAIN result'
             /\ ALen(result'.composite_signal) = FrameLen(data')
             /\ ALen(result'.confidence) = FrameLen(data')]_vars

\* C9: in a returned result every bar below the look back window has composite
\* signal 0 and confidence 0, and on a series of at most historical_window
\* bars the call returns all-zero arrays and raises nothing.
C9_ZeroBelowLookback ==
    last_call = "generate_trading_signals"
        => /\ outcome = "returned"
                => \A a \in {result.composite_signal, result.confidence} :
                      ATake(a, historical_window)
                        = ARepeat(Int2F(0), ALen(ATake(a, historical_window)))
           /\ (data # None /\ FrameLen(data) <= historical_window)
                => /\ outcome = "returned"
                   /\ result.composite_signal = ARepeat(Int2F(0), FrameLen(data))
                   /\ result.confidence = ARepeat(Int2F(0), FrameLen(data))

\* C10: identify_market_states on a loaded series with fewer distinct projected
\* points than n_states returns, uses min(n_states, distinct points) clusters,
\* and state_characteristics has entries only for states that hold a bar.
C10_DegenerateClusteringRecovered ==
    (/\ last_call = "identify_market_states"
     /\ data # None
     /\ Cardinality(UniquePoints(PcaResult(data))) < args.n_states)
        => /\ outcome = "returned"
           /\ AValues(states)
                = 0 .. ActualNStates(args.n_states, UniquePoints(PcaResult(data))) - 1
           /\ DOMAIN state_characteristics \subseteq AValues(states)

\* C11: after identify_market_states(n_states) has returned, the state
\* assignment has one entry per bar of the series and every entry is an
\* integer of 0 .. n_states - 1.
C11_OneStatePerBar ==
    Returned("identify_market_states")
        => /\ ALen(states) = FrameLen(data)
           /\ AValues(states) \subseteq 0 .. args.n_states - 1

\* C11 happens: a series longer than the look back window with two distinct
\* points was clustered into two states
C11_Witness ==
    /\ Returned("identify_market_states")
    /\ FrameLen(data) > historical_window
    /\ AValues(states) = {0, 1}

\* C12: after identify_market_states has returned, current_state is the state
\* of the last bar, it has an entry in state_characteristics, and
\* current_characteristics is that entry.
C12_CurrentStateIsLastBar ==
    Returned("identify_market_states")
        => /\ current_state = At(states, ALen(states) - 1)
           /\ current_state \in DOMAIN state_characteristics
           /\ current_characteristics = state_characteristics[current_state]

\* C12 happens: the first and the last bar of the clustered series are in
\* different states
C12_Witness ==
    /\ Returned("identify_market_states")
    /\ At(states, 0) # At(states, ALen(states) - 1)

\* C13: identify_market_states called with no series loaded raises and leaves
\* states, state_characteristics and current_state as they were.
C13_NoSeriesRaises ==
    [][(data = None /\ last_call' = "identify_market_states")
          => /\ outcome' = "ValueError"
             /\ UNCHANGED <<states, state_characteristics, current_state>>]_vars

\* C13 happens: identify_market_states was called before any series was loaded
C13_Witness ==
    /\ last_call = "identify_market_states"
    /\ data = None
    /\ outcome = "ValueError"

\* the scale the spec gives threshold percentiles: 1 + 0.5 * volatility
VolatilityThresholdScale(v) == FAdd(Int2F(1), FMul(F(1, 2), v))

\* C14: with a current state of volatility v, get_state_adjusted_config returns
\* the RSI and the Stochastic threshold_percentile at their base value times
\* (1 + 0.5 * v).
C14_VolatilityWidensPercentiles ==
    (Returned("get_state_adjusted_config") /\ ~StateUndefined(Self))
        => \A indicator \in {"rsi", "stochastic"} :
              result.config[indicator].threshold_percentile
                = FMul(get_base_config[indicator].threshold_percentile,
                       VolatilityThresholdScale(current_characteristics.volatility))

\* the fewest bars the configured indicator windows need
MinimumWindow(config) ==
    LET windows == {config.rsi.window, config.macd.slow_period,
                    config.stochastic.k_period, config.bollinger.window}
    IN CHOOSE w \in windows : \A v \in windows : v <= w

\* C17: fetch_data calls the provider once; when the provider returns None or
\* an empty series or raises, fetch_data raises and the stored series is the
\* one it was before the call.
C17_FetchFailuresPropagate ==
    [][last_call' = "fetch_data"
          => /\ provider_calls' = 1
             /\ outcome' # "returned" => (data' = data /\ result' = NoResult)
             /\ outcome' = "returned" => data' # None]_vars

\* C17 happens: a fetch_data failed on an analyzer that holds a series
C17_Witness ==
    /\ last_call = "fetch_data"
    /\ outcome # "returned"
    /\ data # None

\* C18: calculate_technical_indicators raises on a series with fewer bars than
\* the longest configured indicator window and stores no indicator series for it.
C18_ShortSeriesRejected ==
    [][(/\ last_call' = "calculate_technical_indicators"
        /\ data # None
        /\ FrameLen(data) < MinimumWindow(indicator_config.base_config))
          => /\ outcome' # "returned"
             /\ UNCHANGED technical_indicators]_vars

\* the requests of `client` forwarded before request `id` that are younger than
\* window_size seconds at time `at`
ForwardedInWindow(client, id, at) ==
    {k \in DOMAIN forwarded[client] :
        forwarded[client][k].id < id /\ forwarded[client][k].at > at - window_size}

\* C19: with rate limiting active, a request is forwarded only while fewer than
\* requests_per_minute requests of its client were forwarded in the 60 seconds
\* before it, so no window of 60 seconds holds more than requests_per_minute
\* forwarded requests of one client, under every interleaving; each further
\* request is answered 429, error 'Rate limit exceeded', with a Retry-After header.
C19_AtMostLimitForwarded ==
    ~test_mode =>
        \A client \in Clients :
           /\ \A k \in DOMAIN forwarded[client] :
                 Cardinality(ForwardedInWindow(client, forwarded[client][k].id,
                                               forwarded[client][k].at))
                    < requests_per_minute
           /\ \A id \in DOMAIN responses :
                 (responses[id].client = client /\ responses[id].response.status_code = 429)
                    => /\ Cardinality(ForwardedInWindow(client, id, responses[id].at))
                            >= requests_per_minute
                       /\ responses[id].response.content = [error |-> "Rate limit exceeded"]
                       /\ "Retry-After" \in DOMAIN responses[id].response.headers
           /\ \A id \in DOMAIN responses :
                 (responses[id].client = client /\ responses[id].response.status_code # 429)
                    => \E k \in DOMAIN forwarded[client] : forwarded[client][k].id = id

\* C19 happens: a client had requests_per_minute >= 1 requests forwarded and a
\* further one answered 429 while another dispatch was still waiting
C19_Witness ==
    /\ ~test_mode
    /\ requests_per_minute >= 1
    /\ in_flight # {}
    /\ \E id \in DOMAIN responses : responses[id].response.status_code = 429

\* the X-RateLimit-Remaining header of the response to the k-th forwarded
\* request of a client
RemainingHeader(client, k) ==
    responses[forwarded[client][k].id].response.headers["X-RateLimit-Remaining"]

\* the k-th forwarded request of a client has been answered
Answered(client, k) == forwarded[client][k].id \in DOMAIN responses

\* the (k-1)-th and the k-th forwarded request of a client lie in one window:
\* every request counted for the (k-1)-th, and the (k-1)-th itself, is still
\* younger than window_size seconds at the k-th
InOneWindow(client, k) ==
    LET a == forwarded[client]
    IN \A j \in 1 .. k - 1 :
          a[j].at > a[k - 1].at - window_size => a[j].at > a[k].at - window_size

\* X-RateLimit-Remaining counts down by one per forwarded request of a client
\* inside one window, from requests_per_minute - 1, and is never negative
RemainingCountsDown ==
    \A client \in Clients :
       \A k \in DOMAIN forwarded[client] :
          Answered(client, k) =>
             /\ RemainingHeader(client, k) >= 0
             /\ ForwardedInWindow(client, forwarded[client][k].id,
                                  forwarded[client][k].at) = {}
                   => RemainingHeader(client, k) = requests_per_minute - 1
             /\ (k > 1 /\ Answered(client, k - 1) /\ InOneWindow(client, k))
                   => RemainingHeader(client, k) = RemainingHeader(client, k - 1) - 1

\* C20 as stated: for consecutive accepted requests of one client inside one
\* window, X-RateLimit-Remaining is one less than in the previous response,
\* starts at requests_per_minute - 1 and is never negative.
C20_RemainingCountsDown == RemainingCountsDown

\* C20 amended: the same, with rate limiting active (test_mode false).
C20_RemainingCountsDownWhenLimiting == ~test_mode => RemainingCountsDown

\* C20 happens: with rate limiting active two consecutive requests of a client
\* in one window were forwarded and answered
C20_Witness ==
    /\ ~test_mode
    /\ \E client \in Clients :
          /\ Len(forwarded[client]) >= 2
          /\ Answered(client, 1) /\ Answered(client, 2)
          /\ InOneWindow(client, 2)
          /\ RemainingHeader(client, 2) = 0

\* some indicator of `config` carries a negative weight
HasNegativeWeight(config) ==
    \E indicator \in DOMAIN config :
        /\ "weight" \in DOMAIN config[indicator]
        /\ FLt(config[indicator].weight, Int2F(0))

\* C15: with a negative indicator weight in the analyzer's configuration,
\* generate_trading_signals on a series that has bars beyond the lookback (the
\* bars whose composite signal is computed) ends with an error rather than
\* returning signals.
C15_NegativeWeightRejected ==
    [][(/\ last_call' = "generate_trading_signals"
        /\ args'.thresholds = None
        /\ data # None
        /\ FrameLen(data) > historical_window
        /\ HasNegativeWeight(indicator_config.base_config))
          => outcome' # "returned"]_vars

\* C16: whatever is called on the first analyzer, the second analyzer keeps
\* the configuration, indicators, state assignment and results it had.
C16_InstancesIsolated == other = SecondAnalyzer

\* the first analyzer has generated signals with overriding thresholds, which
\* wrote into its own configuration dicts
C16_Witness ==
    /\ Returned("generate_trading_signals")
    /\ args.thresholds # None
    /\ indicator_config # get_indicator_config
    /\ technical_indicators # NoIndicators
    /\ current_state # NoneState
    /\ other.self.indicator_config # indicator_config

\* the request dispatched in this step is a request of `client`
DispatchedFor(client) ==
    /\ dispatched' = dispatched + 1
    /\ \/ forwarded'[client] # forwarded[client]
       \/ /\ dispatched' \in DOMAIN responses'
          /\ responses'[dispatched'].client = client

\* the request dispatched in this step was handed to call_next
Forwarded(client) == forwarded'[client] # forwarded[client]

\* `client` has been answered 429
RejectedBefore(client) ==
    \E id \in DOMAIN responses :
        responses[id].client = client /\ responses[id].response.status_code = 429

\* C26: a client that was answered 429 has its request forwarded whenever
\* fewer than requests_per_minute of its forwarded (recorded) requests are
\* younger than 60 seconds, whether the old timestamps were cleaned up or not.
C26_AcceptedAgainOutsideWindow ==
    [][\A client \in Clients :
          (/\ ~test_mode
           /\ RejectedBefore(client)
           /\ DispatchedFor(client)
           /\ Cardinality(ForwardedInWindow(client, dispatched', clock))
                 < requests_per_minute)
             => Forwarded(client)]_vars

\* C26 happens: a client was answered 429 and a later request of it was
\* forwarded while its older timestamps were still recorded
C26_Witness ==
    /\ ~test_mode
    /\ \E client \in Clients :
       \E id \in DOMAIN responses :
       \E k \in DOMAIN forwarded[client] :
          /\ responses[id].client = client
          /\ responses[id].response.status_code = 429
          /\ forwarded[client][k].id > id
          /\ \E t \in DOMAIN request_counts[client] :
                ~(t > forwarded[client][k].at - window_size)

\* request `id` is the latest request of `client` so far
LatestRequestOf(client, id) ==
    /\ \A other_id \in DOMAIN responses :
          responses[other_id].client = client => other_id <= id
    /\ \A k \in DOMAIN forwarded[client] : forwarded[client][k].id <= id

\* C27: with a limit of at least one request, a client whose latest request
\* was answered 429 with a Retry-After of at least one second and that sends
\* its next request once those seconds have passed has that request forwarded.
C27_AcceptedAfterRetryAfter ==
    [][\A client \in Clients :
       \A id \in DOMAIN responses :
          (/\ ~test_mode
           /\ requests_per_minute >= 1
           /\ responses[id].client = client
           /\ responses[id].response.status_code = 429
           /\ LatestRequestOf(client, id)
           /\ responses[id].response.headers["Retry-After"] >= 1
           /\ clock >= responses[id].at + responses[id].response.headers["Retry-After"]
           /\ DispatchedFor(client))
             => Forwarded(client)]_vars

\* the number of recorded requests of `client` that count at time `now`
WindowTotal(counts, client, now) ==
    IF client \in DOMAIN counts
    THEN SumCounts(counts[client], CountedTimestamps(counts[client], now - window_size))
    ELSE 0

\* the times from now on at which a request can arrive
TimesAhead == clock .. MaxClock + window_size

\* C28: a request answered 429 is not handed to call_next and is not recorded:
\* for every client the number of requests that count stays the same, now and
\* at every later time; and a request of one client, forwarded or not, leaves
\* the number of counted requests of every other client the same.
C28_RejectedNotRecorded ==
    [][\A client \in Clients :
          DispatchedFor(client) =>
             /\ ~Forwarded(client) =>
                   /\ UNCHANGED <<forwarded, in_flight>>
                   /\ \A t \in TimesAhead :
                         WindowTotal(request_counts', client, t)
                            = WindowTotal(request_counts, client, t)
             /\ \A another \in Clients \ {client} :
                   \A t \in TimesAhead :
                      WindowTotal(request_counts', another, t)
                         = WindowTotal(request_counts, another, t)]_vars

\* C28 happens: a request was answered 429 by a dispatch that ran the cleanup
\* while the other client had requests recorded
C28_Witness ==
    /\ ~test_mode
    /\ \E id \in DOMAIN responses :
          /\ responses[id].response.status_code = 429
          /\ last_cleanup = responses[id].at
          /\ last_cleanup > 0
          /\ \E another \in Clients \ {responses[id].client} :
                forwarded[another] # <<>>

\* the messages of the given type sent on the socket so far
SentOfType(type) == {i \in DOMAIN websocket.sent : websocket.sent[i].type = type}

\* the calls of `op` made on the queue manager so far
QueueCalls(op) == {i \in DOMAIN queue_calls : queue_calls[i].op = op}

\* C21: for a market_id outside VALID_MARKETS the handler never sends a
\* market_data message, never calls subscribe_to_market and sends at most one
\* message; when it has ended and no socket operation raised, the socket was
\* accepted and closed with code 4004 after exactly one message, of type
\* 'error', whose text names the market_id.
C21_InvalidMarketRejected ==
    market_id \notin VALID_MARKETS =>
       /\ SentOfType("market_data") = {}
       /\ QueueCalls("subscribe_to_market") = {}
       /\ Len(websocket.sent) <= 1
       /\ (handler_pc = "done" /\ websocket.state # "LOST") =>
             /\ websocket.state = "CLOSED"
             /\ websocket.close_code = 4004
             /\ Len(websocket.sent) = 1
             /\ websocket.sent[1].type = "error"
             /\ \E part \in DOMAIN websocket.sent[1].message :
                   websocket.sent[1].message[part] = market_id

\* C21 happens: the handler has ended for an invalid market on a socket that
\* stayed up, with a queue manager at hand
C21_Witness ==
    /\ market_id = "INVALID"
    /\ queue_manager = "test_mode"
    /\ handler_pc = "done"
    /\ websocket.state = "CLOSED"

\* C22: for a market_id in VALID_MARKETS, with no queue manager or one in test
\* mode, the first message sent to the client is of type 'market_data' and its
\* 'data' payload carries the market_id with price, volume and timestamp.
C22_FirstMessageIsMarketData ==
    (/\ market_id \in VALID_MARKETS
     /\ queue_manager \in {"None", "test_mode"}
     /\ websocket.sent # <<>>)
       => /\ websocket.sent[1].type = "market_data"
          /\ {"market_id", "price", "volume", "timestamp"}
                \subseteq DOMAIN websocket.sent[1].data
          /\ websocket.sent[1].data.market_id = market_id

\* subscribe_to_market was called and returned True
SubscribeSucceeded ==
    \E i \in QueueCalls("subscribe_to_market") : queue_calls[i].outcome = "True"

\* C29: with a queue manager, unsubscribe_from_market has been called exactly
\* once when the handler has ended after subscribe_to_market succeeded, and it
\* is never called when subscribe_to_market was not called or did not succeed.
C29_UnsubscribeOnlyAfterSubscribe ==
    /\ (handler_pc = "done" /\ SubscribeSucceeded)
          => Cardinality(QueueCalls("unsubscribe_from_market")) = 1
    /\ ~SubscribeSucceeded => QueueCalls("unsubscribe_from_market") = {}

\* C25: when broadcast has ended it has returned without raising, every
\* socket that was registered for the market with client_state CONNECTED when
\* the loop started has been sent the message or has failed, and the sockets
\* whose send failed, and no others, have been removed by it.
C25_BroadcastCompletes ==
    broadcast_pc = "done" =>
       /\ broadcast_outcome = "returned"
       /\ \A socket \in iterating.start :
             client_state[socket] # "DISCONNECTED"
                => socket \in delivered \cup disconnected
       /\ Registered(active_connections) \cap disconnected = {}
       /\ delivered \cap disconnected = {}

\* the attempts at which ticker.history returns data
Successes == {k \in DOMAIN history : history[k] = "data"}

\* the attempts a fetch makes: up to the first that returns data, or all
AttemptsDue ==
    IF Successes = {} THEN yf_config.MAX_RETRIES
    ELSE CHOOSE k \in Successes : \A other_k \in Successes : k <= other_k

\* C24: a fetch that has ended made exactly MAX_RETRIES attempts when every
\* attempt failed, and then ended with the error of the last attempt; it made
\* the attempts up to the first successful one otherwise, and then returned
\* data; before the attempt numbered k >= 1 (from 0) it waited 2^(k-1) times
\* the base wait of the settings.
C24_RetriesWithBackoff ==
    fetch_pc = "done" =>
       /\ attempts = AttemptsDue
       /\ fetch_result = IF Successes = {}
                         THEN AttemptError(history[yf_config.MAX_RETRIES])
                         ELSE "data"
       /\ sleeps = [k \in 1 .. AttemptsDue - 1 |->
                      Pow2(k - 1) * yf_config["BASE_DELAY"]]

\* C23: a POST /analyze whose indicators list holds a name outside
\* {RSI, MACD, BB, STOCH}, in whatever letter case it is compared, is
\* answered with status 400 and runs no data fetch and no analysis step.
C23_UnsupportedIndicatorIs400 ==
    (/\ analysis_request # None
     /\ \E i \in DOMAIN analysis_request.indicators :
           Upper(analysis_request.indicators[i]) \notin SUPPORTED_INDICATORS)
       => /\ analysis_response.status_code = 400
          /\ analysis_response.steps = <<>>

\* how generate_trading_signals ends and what it returns
Signals(r) == [outcome |-> r.outcome, result |-> r.result]

\* what generate_trading_signals(thresholds) gives on `self` after each way of
\* preparing it: indicators then states, states then indicators, indicators
\* only, states only, nothing; KMeans has a fixed random_state, so every
\* identification of one series gives the same `labeling`
ResultsOfOrders(self, thresholds, labeling) ==
    LET indicators == calculate_technical_indicators(self).self
        identified == identify_market_states(self, default_n_states, labeling).self
        indicators_first ==
            identify_market_states(indicators, default_n_states, labeling).self
        states_first == calculate_technical_indicators(identified).self
    IN {Signals(generate_trading_signals(prepared, thresholds, labeling)) :
           prepared \in {indicators_first, states_first, indicators, identified, self}}

\* a series is loaded and nothing has been derived from it
NothingDerived ==
    /\ data # None
    /\ technical_indicators = NoIndicators
    /\ current_state = NoneState

\* C30: on an analyzer with a loaded series, generate_trading_signals ends the
\* same way and returns the same composite signal, confidence, current state
\* and state characteristics whether calculate_technical_indicators ran before
\* identify_market_states, after it, or either was left to the call itself.
C30_OrderOfPreparationIrrelevant ==
    NothingDerived =>
       \A thresholds \in ThresholdArgs :
       \A labeling \in Labelings(Self, default_n_states) :
          Cardinality(ResultsOfOrders(Self, thresholds, labeling)) = 1

\* C30 happens: a series longer than the look back window, with bars of two
\* kinds, is loaded, nothing is derived yet, and signals are returned for it
C30_Witness ==
    /\ NothingDerived
    /\ FrameLen(data) > historical_window
    /\ Cardinality(UniquePoints(PcaResult(data))) > 1
    /\ \E labeling \in Labelings(Self, default_n_states) :
       \E r \in ResultsOfOrders(Self, DefaultThresholds, labeling) :
          r.outcome = "returned" /\ r.result.kind = "signals"

====
